---- MODULE Spec2Model ----
(***************************************************************************)
(* Verification model of the collaborative markdown editor:                *)
(*   - the segment-list document of src/source/markdown.c                  *)
(*   - the batching server of src/source/server.c                          *)
(* Text is a sequence of one-character strings; a segment list is a        *)
(* sequence of segments (the linked list read from its head).              *)
(***************************************************************************)
EXTENDS Integers, Sequences, FiniteSets, TLC

(***************************************************************************)
(* Return codes and segment states (src/libs/document.h).                  *)
(***************************************************************************)
SUCCESS == 0
INVALID_CURSOR_POS == -1
DELETED_POSITION == -2
OUTDATED_VERSION == -3

COMMITTED_ORIGINAL == "COMMITTED_ORIGINAL"
PENDING_INS == "PENDING_INS"
PENDING_DEL == "PENDING_DEL"

\* text_segment: content and state; length is always strlen(content)
Seg(content, state) == [content |-> content, state |-> state]
SegLen(s) == Len(s.content)

\* helpers on sequences
Min(a, b) == IF a < b THEN a ELSE b
Prefix(s, n) == SubSeq(s, 1, n)
Suffix(s, n) == SubSeq(s, n + 1, Len(s))
\* list with x linked in before index i (i = Len+1 appends)
LinkBefore(l, i, x) == Prefix(l, i - 1) \o <<x>> \o Suffix(l, i - 1)

RECURSIVE ConcatContents(_)
ConcatContents(l) ==
  IF l = <<>> THEN <<>> ELSE Head(l).content \o ConcatContents(Tail(l))

\* markdown_init: empty lists, version 0
markdown_init ==
  [committed_head |-> <<>>, working_head |-> <<>>,
   total_length |-> 0, current_version |-> 0]

\* markdown_flatten: the committed list only
markdown_flatten(d) == ConcatContents(d.committed_head)

\* validate_version_op turning away newer versions only
validate_newer_only(d, version) ==
  IF version > d.current_version THEN OUTDATED_VERSION ELSE SUCCESS

\* validate_version_op
validate_version_op(d, version) ==
  IF version # d.current_version THEN OUTDATED_VERSION ELSE SUCCESS

\* validate_range_op
validate_range_op(d, version, start, end) ==
  IF validate_version_op(d, version) # SUCCESS
  THEN validate_version_op(d, version)
  ELSE IF end <= start THEN INVALID_CURSOR_POS ELSE SUCCESS

\* sync_working: clone the committed list, every copy COMMITTED_ORIGINAL
sync_working(d) ==
  [d EXCEPT !.working_head =
     [i \in 1..Len(d.committed_head) |->
        Seg(d.committed_head[i].content, COMMITTED_ORIGINAL)]]

\* the "if (!doc->working_head) sync_working(doc)" that opens every helper
EnsureWorking(d) == IF d.working_head = <<>> THEN sync_working(d) ELSE d

\* split of segment i of list w at offset l1 (0 < l1 < length): two halves
SplitAt(w, i, l1) ==
  Prefix(w, i - 1)
    \o << Seg(Prefix(w[i].content, l1), w[i].state),
          Seg(Suffix(w[i].content, l1), w[i].state) >>
    \o Suffix(w, i)

\* visible length as put_text counts it: every segment that is not PENDING_INS
RECURSIVE VisibleLength(_)
VisibleLength(w) ==
  IF w = <<>> THEN 0
  ELSE (IF Head(w).state # PENDING_INS THEN SegLen(Head(w)) ELSE 0)
       + VisibleLength(Tail(w))

\* put_text's search loop going on past a segment that starts at pos
RECURSIVE PutWalkPast(_, _, _, _)
PutWalkPast(w, i, seen, pos) ==
  IF i <= Len(w) /\ (seen + SegLen(w[i]) <= pos \/ seen = pos)
  THEN PutWalkPast(w, i + 1,
                   IF w[i].state # PENDING_INS THEN seen + SegLen(w[i])
                   ELSE seen,
                   pos)
  ELSE [i |-> i, seen |-> seen]

\* put_text's search loop: "while (cur && seen + cur->length <= pos)"
RECURSIVE PutWalk(_, _, _, _)
PutWalk(w, i, seen, pos) ==
  IF i <= Len(w) /\ seen + SegLen(w[i]) <= pos
  THEN PutWalk(w, i + 1,
               IF w[i].state # PENDING_INS THEN seen + SegLen(w[i]) ELSE seen,
               pos)
  ELSE [i |-> i, seen |-> seen]

\* add_text step 1: pending insertions are skipped, visible segments ending
\* at or before pos are passed
RECURSIVE AddWalk(_, _, _, _)
AddWalk(w, i, seen, pos) ==
  IF i > Len(w) THEN [i |-> i, seen |-> seen]
  ELSE IF w[i].state # PENDING_INS
       THEN IF seen + SegLen(w[i]) <= pos
            THEN AddWalk(w, i + 1, seen + SegLen(w[i]), pos)
            ELSE [i |-> i, seen |-> seen]
       ELSE AddWalk(w, i + 1, seen, pos)

\* add_text step 3: the end of the pending insertions at the position
RECURSIVE SkipIns(_, _)
SkipIns(w, i) ==
  IF i <= Len(w) /\ w[i].state = PENDING_INS THEN SkipIns(w, i + 1) ELSE i

\* add_text: never rejects; splits a visible segment, skips the pending
\* insertions at the position, links the new segment in
add_text(d, pos, str) ==
  LET d1 == EnsureWorking(d)
      w == d1.working_head
      at == AddWalk(w, 1, 0, pos)
      split == at.i <= Len(w) /\ w[at.i].state # PENDING_INS
               /\ pos > at.seen /\ pos < at.seen + SegLen(w[at.i])
      w2 == IF split THEN SplitAt(w, at.i, pos - at.seen) ELSE w
      cur == SkipIns(w2, IF split THEN at.i + 1 ELSE at.i)
  IN [ret |-> SUCCESS,
      doc |-> [d1 EXCEPT !.working_head =
                 LinkBefore(w2, cur, Seg(str, PENDING_INS))]]

\* put_text as it would be with add_text's placement (a new insertion goes
\* after the pending ones at its position)
put_text_after(d, pos, str) ==
  LET d1 == EnsureWorking(d)
  IN IF pos > VisibleLength(d1.working_head)
     THEN [ret |-> INVALID_CURSOR_POS, doc |-> d1]
     ELSE add_text(d, pos, str)

\* put_text: validates pos, then links the new segment in front of what the
\* search loop stopped at
put_text(d, pos, str) ==
  LET d1 == EnsureWorking(d)
      w == d1.working_head
  IN IF pos > VisibleLength(w)
     THEN [ret |-> INVALID_CURSOR_POS, doc |-> d1]
     ELSE LET at == PutWalk(w, 1, 0, pos)
              split == at.i <= Len(w) /\ w[at.i].state # PENDING_INS
                       /\ pos > at.seen /\ pos < at.seen + SegLen(w[at.i])
              w2 == IF split THEN SplitAt(w, at.i, pos - at.seen) ELSE w
              cur == IF split THEN at.i + 1 ELSE at.i
          IN [ret |-> SUCCESS,
              doc |-> [d1 EXCEPT !.working_head =
                         LinkBefore(w2, cur, Seg(str, PENDING_INS))]]

\* the first loop counting the bytes of PENDING_INS segments too
RECURSIVE RemoveStartCounting(_, _, _, _)
RemoveStartCounting(w, i, seen, pos) ==
  IF i <= Len(w)
     /\ (w[i].state = PENDING_INS \/ seen + SegLen(w[i]) <= pos)
  THEN RemoveStartCounting(w, i + 1, seen + SegLen(w[i]), pos)
  ELSE [i |-> i, seen |-> seen]

\* remove_text's first loop: the segment the range starts in
RECURSIVE RemoveStart(_, _, _, _)
RemoveStart(w, i, seen, pos) ==
  IF i <= Len(w)
     /\ (w[i].state = PENDING_INS \/ seen + SegLen(w[i]) <= pos)
  THEN RemoveStart(w, i + 1,
                   IF w[i].state # PENDING_INS THEN seen + SegLen(w[i])
                   ELSE seen,
                   pos)
  ELSE [i |-> i, seen |-> seen]

\* remove_text's second loop, one iteration per call
RECURSIVE RemoveLoop(_, _, _, _, _)
RemoveLoop(w, i, seen, remain, pos) ==
  IF ~(i <= Len(w) /\ remain > 0) THEN w
  ELSE IF w[i].state = PENDING_INS
  THEN RemoveLoop(w, i + 1, seen, remain, pos)
  ELSE
    LET off == IF pos > seen THEN pos - seen ELSE 0
        dellen == Min(SegLen(w[i]) - off, remain)
        \* partial delete at the end: the rest is linked in after cur
        w1 == IF off + dellen < SegLen(w[i])
              THEN LinkBefore(w, i + 1,
                              Seg(Suffix(w[i].content, off + dellen),
                                  w[i].state))
              ELSE w
    IN IF off > 0
       THEN \* cur is cut to its first off bytes
            RemoveLoop([w1 EXCEPT ![i].content = Prefix(w[i].content, off)],
                       i + 1, seen + off + dellen, remain - dellen, pos)
       ELSE \* cur is marked, with the length it has
            RemoveLoop([w1 EXCEPT ![i].state = PENDING_DEL],
                       i + 1, seen + dellen, remain - dellen, pos)

\* remove_text stopping one byte short of len
remove_text_short(d, pos, len) ==
  LET d1 == EnsureWorking(d)
      w == d1.working_head
      at == RemoveStart(w, 1, 0, pos)
  IN [ret |-> SUCCESS,
      doc |-> [d1 EXCEPT !.working_head =
                 RemoveLoop(w, at.i, at.seen, len - 1, pos)]]

\* remove_text: always SUCCESS
remove_text(d, pos, len) ==
  LET d1 == EnsureWorking(d)
      w == d1.working_head
      at == RemoveStart(w, 1, 0, pos)
  IN [ret |-> SUCCESS,
      doc |-> [d1 EXCEPT !.working_head =
                 RemoveLoop(w, at.i, at.seen, len, pos)]]

\* markdown_increment_version's loop leaving every kept segment the state it
\* has
promote_keeps_state(w) ==
  SelectSeq(w, LAMBDA seg : seg.state # PENDING_DEL)

\* the working list as markdown_increment_version promotes it
RECURSIVE Promote(_)
Promote(w) ==
  IF w = <<>> THEN <<>>
  ELSE IF Head(w).state # PENDING_DEL
       THEN <<Seg(Head(w).content, COMMITTED_ORIGINAL)>> \o Promote(Tail(w))
       ELSE Promote(Tail(w))

\* markdown_increment_version promoting without counting the version
increment_keeps_version(d) ==
  IF d.working_head = <<>> THEN d
  ELSE [d EXCEPT !.committed_head = Promote(d.working_head),
                 !.working_head = <<>>]

\* markdown_increment_version: nothing at all without a working list
markdown_increment_version(d) ==
  IF d.working_head = <<>> THEN d
  ELSE [d EXCEPT !.committed_head = Promote(d.working_head),
                 !.working_head = <<>>,
                 !.current_version = d.current_version + 1]

\* markdown_insert
markdown_insert(d, version, pos, content) ==
  IF validate_version_op(d, version) # SUCCESS
  THEN [ret |-> validate_version_op(d, version), doc |-> d]
  ELSE put_text(d, pos, content)

\* markdown_delete
markdown_delete(d, version, pos, len) ==
  IF validate_version_op(d, version) # SUCCESS
  THEN [ret |-> validate_version_op(d, version), doc |-> d]
  ELSE remove_text(d, pos, len)

\* markdown_newline
markdown_newline(d, version, pos) ==
  IF validate_version_op(d, version) # SUCCESS
  THEN [ret |-> validate_version_op(d, version), doc |-> d]
  ELSE add_text(d, pos, <<"\n">>)

\* byte k (from 0) of a C string, its terminating NUL included
NUL == "NUL"
CharAt(flat, k) == IF k < Len(flat) THEN flat[k + 1] ELSE NUL

\* markdown_heading's "while (cur && count + cur->length < pos)", over every
\* segment of the working list whatever its state
RECURSIVE HeadingWalk(_, _, _, _)
HeadingWalk(w, i, count, pos) ==
  IF i <= Len(w) /\ count + SegLen(w[i]) < pos
  THEN HeadingWalk(w, i + 1, count + SegLen(w[i]), pos)
  ELSE [i |-> i, count |-> count]

\* markdown_heading's search for the last character of the list
RECURSIVE HeadingLast(_, _, _, _)
HeadingLast(w, i, total, count) ==
  IF i > Len(w) THEN i
  ELSE IF total + SegLen(w[i]) >= count THEN i
  ELSE HeadingLast(w, i + 1, total + SegLen(w[i]), count)

\* the character markdown_heading finds before pos (NUL when it finds none)
HeadingPrevChar(w, pos) ==
  LET at == HeadingWalk(w, 1, 0, pos)
  IN IF at.i <= Len(w) /\ pos > at.count
        /\ SegLen(w[at.i]) >= pos - at.count
     THEN w[at.i].content[pos - at.count]
     ELSE IF at.i > Len(w) /\ at.count > 0
     THEN LET j == HeadingLast(w, 1, 0, at.count)
          IN IF j <= Len(w) /\ SegLen(w[j]) > 0
             THEN w[j].content[SegLen(w[j])]
             ELSE NUL
     ELSE NUL

\* level '#' characters and a space
HeadingStr(level) == [i \in 1..level |-> "#"] \o <<" ">>

\* markdown_heading
markdown_heading(d, version, level, pos) ==
  IF validate_version_op(d, version) # SUCCESS
  THEN [ret |-> validate_version_op(d, version), doc |-> d]
  ELSE IF level < 1 \/ level > 3
  THEN [ret |-> INVALID_CURSOR_POS, doc |-> d]
  ELSE LET d1 == EnsureWorking(d)
           needs_newline ==
             pos > 0 /\ HeadingPrevChar(d1.working_head, pos) # "\n"
       IN IF needs_newline
          THEN add_text(add_text(d1, pos, <<"\n">>).doc, pos + 1,
                        HeadingStr(level))
          ELSE add_text(d1, pos, HeadingStr(level))

\* apply_range_format putting the closing marker at start as well
apply_range_format_at_start(d, start, end, marker) ==
  add_text(add_text(d, start, marker).doc, start, marker)

\* apply_range_format: the closing marker at end, then the opening at start
apply_range_format(d, start, end, marker) ==
  add_text(add_text(d, end, marker).doc, start, marker)

\* markdown_bold, markdown_italic, markdown_code
RangeFormat(d, version, start, end, marker) ==
  IF validate_range_op(d, version, start, end) # SUCCESS
  THEN [ret |-> validate_range_op(d, version, start, end), doc |-> d]
  ELSE apply_range_format(d, start, end, marker)

markdown_bold(d, version, start, end) ==
  RangeFormat(d, version, start, end, <<"*", "*">>)

markdown_italic(d, version, start, end) ==
  RangeFormat(d, version, start, end, <<"*">>)

\* the backtick character (a TLA+ string cannot hold it)
Backtick == "BACKTICK"

markdown_code(d, version, start, end) ==
  RangeFormat(d, version, start, end, <<Backtick>>)

\* markdown_link
markdown_link(d, version, start, end, url) ==
  IF validate_range_op(d, version, start, end) # SUCCESS
  THEN [ret |-> validate_range_op(d, version, start, end), doc |-> d]
  ELSE add_text(add_text(d, end, <<"]", "(">> \o url \o <<")">>).doc,
                start, <<"[">>)

\* needs_newline_before looking at the byte at pos, not the one before it
needs_newline_at(flat, pos) ==
  IF pos = 0 THEN FALSE ELSE CharAt(flat, pos) # "\n"

\* needs_newline_before, on the committed flatten
needs_newline_before(flat, pos) ==
  IF pos = 0 THEN FALSE ELSE CharAt(flat, pos - 1) # "\n"

\* insert_block_element looking at pos only after the marker is in
insert_block_element_late(d, pos, marker) ==
  LET flat == markdown_flatten(d)
      r == IF needs_newline_before(flat, pos)
           THEN add_text(d, pos, <<"\n">> \o marker)
           ELSE add_text(d, pos, marker)
  IN IF pos > Len(flat) THEN [ret |-> INVALID_CURSOR_POS, doc |-> r.doc]
     ELSE r

\* insert_block_element
insert_block_element(d, pos, marker) ==
  LET flat == markdown_flatten(d)
  IN IF pos > Len(flat) THEN [ret |-> INVALID_CURSOR_POS, doc |-> d]
     ELSE IF needs_newline_before(flat, pos)
     THEN add_text(d, pos, <<"\n">> \o marker)
     ELSE add_text(d, pos, marker)

\* markdown_blockquote, markdown_unordered_list, markdown_horizontal_rule
BlockFormat(d, version, pos, marker) ==
  IF d.current_version # version
  THEN [ret |-> OUTDATED_VERSION, doc |-> d]
  ELSE insert_block_element(d, pos, marker)

markdown_blockquote(d, version, pos) ==
  BlockFormat(d, version, pos, <<">", " ">>)

markdown_unordered_list(d, version, pos) ==
  BlockFormat(d, version, pos, <<"-", " ">>)

markdown_horizontal_rule(d, version, pos) ==
  BlockFormat(d, version, pos, <<"-", "-", "-", "\n">>)

\* isdigit, and the value of a digit
Digits == <<"0", "1", "2", "3", "4", "5", "6", "7", "8", "9">>
isdigit(c) == \E k \in 1..10 : Digits[k] = c
DigitVal(c) == (CHOOSE k \in 1..10 : Digits[k] = c) - 1

\* the number of digits of flat from byte k on
RECURSIVE CountDigits(_, _)
CountDigits(flat, k) ==
  IF isdigit(CharAt(flat, k)) THEN 1 + CountDigits(flat, k + 1) ELSE 0

\* atoi on the digits of flat from byte k on
RECURSIVE AtoiFrom(_, _, _)
AtoiFrom(flat, k, acc) ==
  IF isdigit(CharAt(flat, k))
  THEN AtoiFrom(flat, k + 1, 10 * acc + DigitVal(CharAt(flat, k)))
  ELSE acc
atoi(flat, k) == AtoiFrom(flat, k, 0)

\* snprintf("%d") of a number that is not negative
RECURSIVE Decimal(_)
Decimal(n) ==
  IF n < 10 THEN <<Digits[n + 1]>>
  ELSE Decimal(n \div 10) \o <<Digits[(n % 10) + 1]>>

\* "digits. " at byte k of flat
IsListItemAt(flat, k) ==
  /\ isdigit(CharAt(flat, k))
  /\ CharAt(flat, k + CountDigits(flat, k)) = "."
  /\ CharAt(flat, k + CountDigits(flat, k) + 1) = " "

\* markdown_ordered_list's "while (i >= 0 && flat[i] != '\n') i--"
RECURSIVE BackToNewline(_, _)
BackToNewline(flat, i) ==
  IF i >= 0 /\ CharAt(flat, i) # "\n" THEN BackToNewline(flat, i - 1) ELSE i

\* markdown_ordered_list's "while (next_line < flat_len && ... != '\n')"
RECURSIVE ForwardToNewline(_, _)
ForwardToNewline(flat, k) ==
  IF k < Len(flat) /\ CharAt(flat, k) # "\n"
  THEN ForwardToNewline(flat, k + 1) ELSE k

\* markdown_ordered_list's renumbering loop over the committed flatten
RECURSIVE Renumber(_, _, _, _)
Renumber(d, flat, scan, next_num) ==
  IF ~(scan < Len(flat)) THEN d
  ELSE LET eol == ForwardToNewline(flat, scan)
           next_line == eol + 1
       IN IF eol >= Len(flat) THEN d
          ELSE IF IsListItemAt(flat, next_line)
          THEN LET old_len == CountDigits(flat, next_line) + 2
                   new_prefix == Decimal(next_num) \o <<".", " ">>
                   d1 == remove_text(d, next_line, old_len).doc
                   d2 == add_text(d1, next_line, new_prefix).doc
               IN Renumber(d2, flat, next_line + Len(new_prefix),
                           next_num + 1)
          ELSE d

\* markdown_ordered_list
markdown_ordered_list(d, version, pos) ==
  IF d.current_version # version
  THEN [ret |-> OUTDATED_VERSION, doc |-> d]
  ELSE
    LET flat == markdown_flatten(d)
        at_line_start == pos = 0 \/ CharAt(flat, pos - 1) = "\n"
        i == BackToNewline(flat, pos - 2)
        prev_line_start == IF i >= 0 THEN i + 1 ELSE 0
        prev_num == IF pos > 0 /\ IsListItemAt(flat, prev_line_start)
                    THEN atoi(flat, prev_line_start) ELSE 0
        new_num == prev_num + 1
        prefix == (IF at_line_start THEN <<>> ELSE <<"\n">>)
                  \o Decimal(new_num) \o <<".", " ">>
    IN IF pos > Len(flat) THEN [ret |-> INVALID_CURSOR_POS, doc |-> d]
       ELSE [ret |-> SUCCESS,
             doc |-> Renumber(add_text(d, pos, prefix).doc, flat,
                              pos + Len(prefix), new_num + 1)]

(***************************************************************************)
(* The server (src/source/server.c).                                       *)
(* A command line is its first word and its further words, each a text:    *)
(* "INSERT 0 x" is [name |-> "INSERT", args |-> << <<"0">>, <<"x">> >>].   *)
(* sscanf("%zu") takes the digits a word starts with and leaves the rest   *)
(* of the word to the conversion that follows.                             *)
(***************************************************************************)
Cmd(name, args) == [name |-> name, args |-> args]

\* roles.txt, one <<username, role>> per line (the file the tests write)
RolesFile ==
  << <<"alice", "write">>, <<"bob", "read">>,
     <<"charlie", "write">>, <<"admin", "write">> >>

\* the scan that would let the last matching line win
AuthScanLast(lines, username) ==
  LET hits == {k \in 1..Len(lines) : lines[k][1] = username}
      last == CHOOSE k \in hits : \A j \in hits : j <= k
  IN IF hits = {} THEN [ok |-> FALSE, role |-> "", permission |-> 0]
     ELSE [ok |-> TRUE, role |-> lines[last][2],
           permission |-> IF lines[last][2] = "write" THEN 1 ELSE 0]

\* authenticate_client: the first line whose username matches
RECURSIVE AuthScan(_, _)
AuthScan(lines, username) ==
  IF lines = <<>> THEN [ok |-> FALSE, role |-> "", permission |-> 0]
  ELSE IF Head(lines)[1] = username
  THEN [ok |-> TRUE, role |-> Head(lines)[2],
        permission |-> IF Head(lines)[2] = "write" THEN 1 ELSE 0]
  ELSE AuthScan(Tail(lines), username)

authenticate_client(username) == AuthScan(RolesFile, username)

\* roles.txt as fopen finds it: there with its lines, or missing
roles_txt(lines) == [exists |-> TRUE, lines |-> lines]
NoRolesFile == [exists |-> FALSE, lines |-> <<>>]

\* get_user_permissions (server_lib.c), the same scan on the file given:
\* nobody is found when fopen fails
get_user_permissions(file, username) ==
  IF ~file.exists THEN [ok |-> FALSE, role |-> "", permission |-> 0]
  ELSE AuthScan(file.lines, username)

\* a slot of clients[] after memset(0)
FreeSlot == [active |-> FALSE, username |-> "", role |-> "", permission |-> 0]

\* execute_queued_command's lookup: the permission of the first active slot
\* with this username, 0 when there is none
RECURSIVE LookupPermission(_, _, _)
LookupPermission(cl, i, username) ==
  IF i > Len(cl) THEN 0
  ELSE IF cl[i].active /\ cl[i].username = username THEN cl[i].permission
  ELSE LookupPermission(cl, i + 1, username)

write_commands ==
  {"INSERT", "DEL", "NEWLINE", "HEADING", "BOLD", "ITALIC", "BLOCKQUOTE",
   "ORDERED_LIST", "UNORDERED_LIST", "CODE", "HORIZONTAL_RULE", "LINK"}

\* sscanf("%zu") on a word: the value of the digits it starts with, or
\* NoParse when it starts with none
NoParse == -1
ScanZu(word) ==
  IF CountDigits(word, 0) > 0 THEN atoi(word, 0) ELSE NoParse

\* what "%zu" leaves of the word
Junk(word) == SubSeq(word, CountDigits(word, 0) + 1, Len(word))

\* "%zu ... %zu" on the first n words of args: each starts with digits, and
\* all but the last are digits only, since the next "%zu" meets what is left
Scans(args, n) ==
  /\ Len(args) >= n
  /\ \A k \in 1..n :
        /\ ScanZu(args[k]) # NoParse
        /\ k < n => Junk(args[k]) = <<>>

\* the words with a space before each
RECURSIVE Spaced(_)
Spaced(words) ==
  IF words = <<>> THEN <<>>
  ELSE <<" ">> \o Head(words) \o Spaced(Tail(words))

\* the version a client saw when it connected to a new server
version_at_connect(d) == 0

\* the version execute_queued_command passes to every operation
current_version(d) == d.current_version

\* the switch that turns a return code into a result string
ResultString(ret) ==
  CASE ret = SUCCESS -> "SUCCESS"
    [] ret = INVALID_CURSOR_POS -> "Reject INVALID_POSITION"
    [] ret = DELETED_POSITION -> "Reject DELETED_POSITION"
    [] ret = OUTDATED_VERSION -> "Reject OUTDATED_VERSION"
    [] OTHER -> "Reject INVALID_POSITION"

Done(r) == [result |-> ResultString(r.ret), doc |-> r.doc]
Rejected(d, why) == [result |-> why, doc |-> d]

\* execute_queued_command after the permission check: parse and dispatch
Dispatch(d, command) ==
  LET name == command.name
      a == command.args
      v == current_version(d)
      n(k) == ScanZu(a[k])
      bad == Rejected(d, "Reject INVALID_POSITION")
  IN CASE name = "INSERT" ->
          \* "%zu %255[^\n]": the content is the rest of the line
          IF Scans(a, 1) /\ Junk(a[1]) # <<>>
          THEN Done(markdown_insert(d, v, n(1),
                                    Junk(a[1]) \o Spaced(Tail(a))))
          ELSE IF Scans(a, 1) /\ Len(a) >= 2
          THEN Done(markdown_insert(d, v, n(1), Tail(Spaced(Tail(a)))))
          ELSE bad
       [] name = "DEL" ->
          IF Scans(a, 2) THEN Done(markdown_delete(d, v, n(1), n(2))) ELSE bad
       [] name = "NEWLINE" ->
          IF Scans(a, 1) THEN Done(markdown_newline(d, v, n(1))) ELSE bad
       [] name = "HEADING" ->
          IF Scans(a, 2) THEN Done(markdown_heading(d, v, n(1), n(2))) ELSE bad
       [] name = "BOLD" ->
          IF Scans(a, 2) THEN Done(markdown_bold(d, v, n(1), n(2))) ELSE bad
       [] name = "ITALIC" ->
          IF Scans(a, 2) THEN Done(markdown_italic(d, v, n(1), n(2))) ELSE bad
       [] name = "BLOCKQUOTE" ->
          IF Scans(a, 1) THEN Done(markdown_blockquote(d, v, n(1))) ELSE bad
       [] name = "ORDERED_LIST" ->
          IF Scans(a, 1) THEN Done(markdown_ordered_list(d, v, n(1))) ELSE bad
       [] name = "UNORDERED_LIST" ->
          IF Scans(a, 1) THEN Done(markdown_unordered_list(d, v, n(1)))
          ELSE bad
       [] name = "CODE" ->
          IF Scans(a, 2) THEN Done(markdown_code(d, v, n(1), n(2))) ELSE bad
       [] name = "HORIZONTAL_RULE" ->
          IF Scans(a, 1) THEN Done(markdown_horizontal_rule(d, v, n(1)))
          ELSE bad
       [] name = "LINK" ->
          \* "%zu %zu %255s": the url is the next word
          IF Scans(a, 2) /\ Junk(a[2]) # <<>>
          THEN Done(markdown_link(d, v, n(1), n(2), Junk(a[2])))
          ELSE IF Scans(a, 2) /\ Len(a) >= 3
          THEN Done(markdown_link(d, v, n(1), n(2), a[3])) ELSE bad
       [] OTHER -> bad

\* execute_queued_command with the arguments parsed before the permission is
\* looked at
execute_parse_first(d, cl, username, command) ==
  IF Dispatch(d, command).result = "Reject INVALID_POSITION"
  THEN Dispatch(d, command)
  ELSE IF command.name \in write_commands
          /\ LookupPermission(cl, 1, username) = 0
  THEN Rejected(d, "Reject UNAUTHORISED")
  ELSE Dispatch(d, command)

\* execute_queued_command: the result string and the document it leaves
execute_queued_command(d, cl, username, command) ==
  IF command.name \in write_commands /\ LookupPermission(cl, 1, username) = 0
  THEN Rejected(d, "Reject UNAUTHORISED")
  ELSE Dispatch(d, command)

(***************************************************************************)
(* The bytes of a broadcast message.  version_message and broadcast_log    *)
(* are char arrays of MAX_LOG_LEN bytes filled with strcat.                *)
(***************************************************************************)
MAX_LOG_LEN == 10000
MAX_CMD_LEN == 256

\* strlen of a command line: its words, one space between two
RECURSIVE ArgsLen(_)
ArgsLen(args) ==
  IF args = <<>> THEN 0 ELSE 1 + Len(Head(args)) + ArgsLen(Tail(args))

CommandLen(command) == Len(command.name) + ArgsLen(command.args)

\* strlen of "EDIT <username> <command> <result>\n"
EditLen(e) ==
  Len("EDIT ") + Len(e.username) + 1 + CommandLen(e.command) + 1
    + Len(e.result) + 1

RECURSIVE EditsLen(_)
EditsLen(edits) ==
  IF edits = <<>> THEN 0 ELSE EditLen(Head(edits)) + EditsLen(Tail(edits))

\* strlen of "VERSION <n>\n" followed by the EDIT lines
OpenMessageLen(m) ==
  Len("VERSION ") + Len(Decimal(m.version)) + 1 + EditsLen(m.edits)

\* strlen of a message with its "END\n"
MessageLen(m) == OpenMessageLen(m) + Len("END") + 1

RECURSIVE LogLen(_)
LogLen(log) ==
  IF log = <<>> THEN 0 ELSE MessageLen(Head(log)) + LogLen(Tail(log))

\* strcat of add bytes to a string of len bytes in an array of MAX_LOG_LEN:
\* whether the string is still whole afterwards.  It is when the bytes and
\* the terminating NUL fit; when they do not, strcat writes past the end of
\* the array, and either outcome may follow.
strcat(len, add) == IF len + add + 1 <= MAX_LOG_LEN THEN {TRUE} ELSE BOOLEAN

\* a string that was not whole stays so
StillWhole(whole, len, add) == IF whole THEN strcat(len, add) ELSE {FALSE}

\* strcat(broadcast_log, version_message): the logs that may result
LogAppend(log, m) ==
  {Append(log, [m EXCEPT !.whole = whole]) :
     whole \in StillWhole(m.whole, LogLen(log), MessageLen(m))}

(***************************************************************************)
(* State.                                                                  *)
(*   doc      the document (src/libs/document.h)                           *)
(*   clients  clients[]: active, username, role, permission of each slot   *)
(*   sess     per client process: where its handler thread stands, its     *)
(*            slot and the username it sent                                *)
(*   queue    the command queue, command_head first                        *)
(*   tick     the broadcast thread: its position (pc), commands_to_process,*)
(*            old_version and version_message; pre is history, the         *)
(*            committed text when the batch began.  A message is its       *)
(*            VERSION number, its EDIT lines and whether every strcat that *)
(*            built it stayed inside its array (whole)                     *)
(*   doc_mutex  the holder of doc_mutex, or Nobody                         *)
(*   broadcast_log  the messages appended to broadcast_log                 *)
(* History, for stating the claims:                                        *)
(*   enqueued the number of commands enqueued so far; the k-th carries     *)
(*            id k                                                         *)
(*   reply    what the last step wrote: a DOC? reply, or the stdin         *)
(*            thread's "QUIT rejected"; NoReply when it wrote neither      *)
(*   server_running  FALSE once the process has exited                     *)
(*   calls    the API calls made on doc since the last commit, with their  *)
(*            return codes (seq); the calls of the batch committed before  *)
(*            (prev) and the text that batch started from (prevbase)       *)
(*   base     markdown_flatten(doc) when the first of these calls was made *)
(*   phase    "open" after a call, "committed" after a commit              *)
(* Streams, files and the sessions lock, kept by the step-by-step actions  *)
(* of the threads (IoSpec); the coarser actions of Spec leave them alone:  *)
(*   clients_mutex  the holder of clients_mutex, or Nobody                 *)
(*   loop     the slot the broadcast loop has reached                      *)
(*   out      per client process, what the server has written to its       *)
(*            S2C FIFO, oldest first                                       *)
(*   pipe     per client process, how much of that the client has not      *)
(*            read yet                                                     *)
(*   doc_md   the contents of doc.md, or Absent                            *)
(***************************************************************************)
VARIABLES doc, clients, sess, queue, tick, doc_mutex, broadcast_log,
          enqueued, reply, server_running, calls, base, phase,
          clients_mutex, loop, out, pipe, doc_md, auth, c2s

ioVars == <<clients_mutex, loop, out, pipe, doc_md>>
serverVars == <<clients, sess, queue, tick, doc_mutex, broadcast_log,
                enqueued, reply, server_running, ioVars, auth, c2s>>
callVars == <<calls, base, phase, auth, c2s>>
vars == <<doc, clients, sess, queue, tick, doc_mutex, broadcast_log,
          enqueued, reply, server_running, calls, base, phase,
          clients_mutex, loop, out, pipe, doc_md, auth, c2s>>

\* number of API calls of one run
MaxCalls == 2
\* client processes, and the slots of clients[] the model keeps for them
NumClients == 2
\* commands enqueued in one run
MaxCommands == 2

Procs == 1..NumClients
\* every client process the model knows a username for
AllProcs == 1..4
\* doc.md before its first fopen("w")
Absent == [exists |-> FALSE, bytes |-> <<>>]
\* doc.md after fopen("w"), fprintf("%s", content) and fclose
FileWith(content) == [exists |-> TRUE, bytes |-> content]
\* the holders of doc_mutex the model distinguishes
Nobody == "nobody"
Scheduler == "broadcast_thread"

\* nobody has been looked up in roles.txt yet
NotAsked(file) ==
  [roles_txt |-> file, asked |-> FALSE, username |-> "", ret |-> 0,
   role |-> "", permission |-> 0]

\* a C2S FIFO nothing was written to: the lines the client has written, in
\* order, those the handler has handled, and those still in the pipe
NoLines == [written |-> <<>>, handled |-> <<>>, pending |-> <<>>]

\* no DOC? reply was written in the last step
NoReply == [state |-> "none", text |-> <<>>]

\* the state main() leaves: no client, empty queue, broadcast thread asleep;
\* file is roles.txt, and nobody has been looked up in it
ServerInitWith(file) ==
  /\ clients = [i \in 1..NumClients |-> FreeSlot]
  /\ sess = [p \in AllProcs |-> [pc |-> "off", slot |-> 0, username |-> ""]]
  /\ queue = <<>>
  /\ tick = [pc |-> "sleep", commands_to_process |-> <<>>, old_version |-> 0,
             pre |-> <<>>,
             version_message |->
               [version |-> 0, edits |-> <<>>, whole |-> TRUE]]
  /\ doc_mutex = Nobody
  /\ broadcast_log = <<>>
  /\ enqueued = 0
  /\ reply = NoReply
  /\ server_running = TRUE
  /\ clients_mutex = Nobody
  /\ loop = 0
  /\ out = [p \in AllProcs |-> <<>>]
  /\ pipe = [p \in AllProcs |-> 0]
  /\ doc_md = Absent
  /\ auth = NotAsked(file)
  /\ c2s = [p \in AllProcs |-> NoLines]

ServerInit == ServerInitWith(roles_txt(RolesFile))

NoCalls ==
  /\ calls = [n |-> 0, seq |-> <<>>, prev |-> <<>>, prevbase |-> <<>>]
  /\ phase = "init"

TotalCalls == IF phase = "init" THEN 0 ELSE calls.n

\* the record of one call; n counts the calls of the run
Called(op, version, args, r) ==
  /\ TotalCalls < MaxCalls
  /\ doc' = r.doc
  /\ calls' = [n |-> TotalCalls + 1,
               seq |-> (IF phase = "open" THEN calls.seq ELSE <<>>)
                       \o <<[op |-> op, version |-> version, args |-> args,
                              ret |-> r.ret]>>,
               prev |-> IF phase = "open" THEN calls.prev
                        ELSE IF phase = "committed" THEN calls.seq ELSE <<>>,
               prevbase |-> IF phase = "open" THEN calls.prevbase ELSE base]
  /\ base' = IF phase = "open" THEN base ELSE markdown_flatten(doc)
  /\ phase' = "open"
  /\ UNCHANGED serverVars

Insert(version, pos, text) ==
  Called("insert", version, <<pos, text>>,
         markdown_insert(doc, version, pos, text))

Delete(version, pos, len) ==
  Called("delete", version, <<pos, len>>,
         markdown_delete(doc, version, pos, len))

Newline(version, pos) ==
  Called("newline", version, <<pos>>, markdown_newline(doc, version, pos))

Heading(version, level, pos) ==
  Called("heading", version, <<level, pos>>,
         markdown_heading(doc, version, level, pos))

Bold(version, start, end) ==
  Called("bold", version, <<start, end>>,
         markdown_bold(doc, version, start, end))

Italic(version, start, end) ==
  Called("italic", version, <<start, end>>,
         markdown_italic(doc, version, start, end))

Code(version, start, end) ==
  Called("code", version, <<start, end>>,
         markdown_code(doc, version, start, end))

Link(version, start, end, url) ==
  Called("link", version, <<start, end, url>>,
         markdown_link(doc, version, start, end, url))

Blockquote(version, pos) ==
  Called("blockquote", version, <<pos>>,
         markdown_blockquote(doc, version, pos))

OrderedList(version, pos) ==
  Called("ordered_list", version, <<pos>>,
         markdown_ordered_list(doc, version, pos))

UnorderedList(version, pos) ==
  Called("unordered_list", version, <<pos>>,
         markdown_unordered_list(doc, version, pos))

HorizontalRule(version, pos) ==
  Called("horizontal_rule", version, <<pos>>,
         markdown_horizontal_rule(doc, version, pos))

\* markdown_increment_version called by the owner of the document
Commit ==
  /\ phase = "open"
  /\ doc' = markdown_increment_version(doc)
  /\ phase' = "committed"
  /\ UNCHANGED <<calls, base>>
  /\ UNCHANGED serverVars

\* a committed document of one or more segments holding text t
RECURSIVE Segmentations(_)
Segmentations(t) ==
  IF t = <<>> THEN {<<>>}
  ELSE UNION { { <<Seg(Prefix(t, k), COMMITTED_ORIGINAL)>> \o rest :
                   rest \in Segmentations(Suffix(t, k)) } : k \in 1..Len(t) }

DocOf(segs) ==
  [committed_head |-> segs, working_head |-> <<>>, total_length |-> 0,
   current_version |-> IF segs = <<>> THEN 0 ELSE 1]

\* documents and texts the laws are checked on
LawTexts == {<<>>, <<"a">>, <<"a", "b">>, <<"a", "b", "c">>}
LawInserts == {<<"x">>, <<"y", "z">>}

DocInit(texts) ==
  /\ doc \in {DocOf(segs) : segs \in UNION {Segmentations(t) : t \in texts}}
  /\ ServerInit
  /\ NoCalls
  /\ base = markdown_flatten(doc)

LawInit == DocInit(LawTexts)

LawNext ==
  \/ \E pos \in 0..(VisibleLength(EnsureWorking(doc).working_head) + 1),
        text \in LawInserts :
        Insert(doc.current_version, pos, text)
  \/ \E pos \in 0..VisibleLength(EnsureWorking(doc).working_head),
        len \in 1..2 :
        Delete(doc.current_version, pos, len)
  \/ Commit

LawSpec == LawInit /\ [][LawNext]_vars

\* every operation, called with the current version, the one before and the
\* one after
OpsDocs ==
  {DocOf(<<>>),
   DocOf(<<Seg(<<"a">>, COMMITTED_ORIGINAL), Seg(<<"b">>, COMMITTED_ORIGINAL)>>),
   DocOf(<<Seg(<<"1", ".", " ", "\n", "2", ".", " ">>, COMMITTED_ORIGINAL)>>)}
OpsPositions == {1}
OpsRanges == {<<0, 1>>}
OpsVersions ==
  {v \in {doc.current_version - 1, doc.current_version,
          doc.current_version + 1} : v >= 0}

OpsInit ==
  /\ doc \in OpsDocs
  /\ ServerInit
  /\ NoCalls
  /\ base = markdown_flatten(doc)

OpsNext ==
  \/ \E v \in OpsVersions, pos \in OpsPositions : Insert(v, pos, <<"x">>)
  \/ \E v \in OpsVersions, pos \in OpsPositions : Delete(v, pos, 1)
  \/ \E v \in OpsVersions, pos \in OpsPositions : Newline(v, pos)
  \/ \E v \in OpsVersions, pos \in OpsPositions, level \in {1, 4} :
        Heading(v, level, pos)
  \/ \E v \in OpsVersions, r \in OpsRanges : Bold(v, r[1], r[2])
  \/ \E v \in OpsVersions, r \in OpsRanges : Italic(v, r[1], r[2])
  \/ \E v \in OpsVersions, r \in OpsRanges : Code(v, r[1], r[2])
  \/ \E v \in OpsVersions, r \in OpsRanges : Link(v, r[1], r[2], <<"u">>)
  \/ \E v \in OpsVersions, pos \in OpsPositions : Blockquote(v, pos)
  \/ \E v \in OpsVersions, pos \in OpsPositions : OrderedList(v, pos)
  \/ \E v \in OpsVersions, pos \in OpsPositions : UnorderedList(v, pos)
  \/ \E v \in OpsVersions, pos \in OpsPositions : HorizontalRule(v, pos)
  \/ Commit

OpsSpec == OpsInit /\ [][OpsNext]_vars

\* the block and range operations called with the current version at every
\* position of small documents
FormatDocs ==
  {DocOf(<<>>),
   DocOf(<<Seg(<<"a">>, COMMITTED_ORIGINAL), Seg(<<"b">>, COMMITTED_ORIGINAL)>>),
   DocOf(<<Seg(<<"a", "\n", "b">>, COMMITTED_ORIGINAL)>>)}
FormatPositions == 0..3
FormatRanges == {<<0, 1>>, <<1, 2>>, <<2, 3>>, <<0, 3>>, <<1, 1>>}

FormatInit ==
  /\ doc \in FormatDocs
  /\ ServerInit
  /\ NoCalls
  /\ base = markdown_flatten(doc)

FormatNext ==
  \/ \E pos \in FormatPositions : Blockquote(doc.current_version, pos)
  \/ \E pos \in FormatPositions : UnorderedList(doc.current_version, pos)
  \/ \E pos \in FormatPositions : HorizontalRule(doc.current_version, pos)
  \/ \E pos \in FormatPositions : OrderedList(doc.current_version, pos)
  \/ \E r \in FormatRanges : Bold(doc.current_version, r[1], r[2])
  \/ \E r \in FormatRanges : Italic(doc.current_version, r[1], r[2])
  \/ \E r \in FormatRanges : Code(doc.current_version, r[1], r[2])
  \/ \E r \in FormatRanges : Link(doc.current_version, r[1], r[2], <<"u">>)
  \/ Commit

FormatSpec == FormatInit /\ [][FormatNext]_vars

(***************************************************************************)
(* The server's threads.                                                   *)
(***************************************************************************)
\* the username each client process sends; roles.txt has no eve
ProcUser == <<"alice", "bob", "eve", "charlie">>

\* the command lines the clients send: "INSERT 0 x", and "BOLD z", whose
\* arguments do not parse
Commands ==
  {Cmd("INSERT", << <<"0">>, <<"x">> >>),
   Cmd("BOLD", << <<"z">> >>)}

\* the slot handle_client_connection takes: the first that is not active
FirstFree(cl) ==
  IF \E i \in 1..Len(cl) : ~cl[i].active
  THEN CHOOSE i \in 1..Len(cl) :
         ~cl[i].active /\ \A j \in 1..(i - 1) : cl[j].active
  ELSE 0

\* handle_client_connection: a slot for the new client and its handler
\* thread, or the rejection when every slot is active
Connect(p) ==
  /\ server_running
  /\ sess[p].pc = "off"
  /\ clients_mutex = Nobody
  /\ IF FirstFree(clients) = 0
     THEN UNCHANGED <<clients, sess>>
     ELSE /\ clients' = [clients EXCEPT ![FirstFree(clients)].active = TRUE]
          /\ sess' = [sess EXCEPT ![p] = [pc |-> "auth",
                                          slot |-> FirstFree(clients),
                                          username |-> ""]]
  /\ UNCHANGED <<doc, queue, tick, doc_mutex, broadcast_log, enqueued>>
  /\ reply' = NoReply
  /\ UNCHANGED <<server_running, callVars, ioVars>>

\* client_handler_thread up to the snapshot: the username is read and looked
\* up; a miss goes to cleanup, a hit is stored in the slot.  The stores are
\* made without clients_mutex; execute_queued_command reads a slot by the
\* username of a queued command, whose sender finished these stores before
\* it could enqueue, and every process has a username of its own, so no
\* read meets a store in progress.
Authenticate(p) ==
  /\ server_running
  /\ sess[p].pc = "auth"
  /\ LET name == ProcUser[p]
         a == authenticate_client(name)
     IN IF ~a.ok
        THEN /\ sess' = [sess EXCEPT ![p].pc = "cleanup",
                                     ![p].username = name]
             /\ UNCHANGED clients
        ELSE /\ clients' = [clients EXCEPT
                              ![sess[p].slot].username = name,
                              ![sess[p].slot].role = a.role,
                              ![sess[p].slot].permission = a.permission]
             /\ sess' = [sess EXCEPT ![p].pc = "snapshot",
                                     ![p].username = name]
  /\ UNCHANGED <<doc, queue, tick, doc_mutex, broadcast_log, enqueued>>
  /\ reply' = NoReply
  /\ UNCHANGED <<server_running, callVars, ioVars>>

\* client_handler_thread: the version and the flatten sent under doc_mutex
Snapshot(p) ==
  /\ server_running
  /\ sess[p].pc = "snapshot"
  /\ doc_mutex = Nobody
  /\ sess' = [sess EXCEPT ![p].pc = "active"]
  /\ UNCHANGED <<doc, clients, queue, tick, doc_mutex, broadcast_log,
                 enqueued>>
  /\ reply' = NoReply
  /\ UNCHANGED <<server_running, callVars, ioVars>>

\* enqueue_edit_command with the node linked in at the head
enqueue_at_head(q, node) == <<node>> \o q

\* enqueue_edit_command: the node goes after command_tail
enqueue_edit_command(q, node) == Append(q, node)

\* client_handler_thread's loop reading an edit command: it is enqueued;
\* limit bounds the commands of one run
EnqueueWithin(p, command, limit) ==
  /\ server_running
  /\ sess[p].pc = "active"
  /\ enqueued < limit
  /\ queue' = enqueue_edit_command(queue,
                 [username |-> sess[p].username, command |-> command,
                  id |-> enqueued + 1])
  /\ enqueued' = enqueued + 1
  /\ UNCHANGED <<doc, clients, sess, tick, doc_mutex, broadcast_log>>
  /\ reply' = NoReply
  /\ UNCHANGED <<server_running, callVars, ioVars>>

Enqueue(p, command) == EnqueueWithin(p, command, MaxCommands)

\* the broadcast thread holds doc_mutex for a batch
InBatch == tick.pc \in {"apply", "promote", "broadcast"}

\* handle_immediate_command's pthread_mutex_lock(&doc_mutex) left out
DocQueryNoLock == TRUE

\* handle_immediate_command's pthread_mutex_lock(&doc_mutex) returns
DocQueryLock == doc_mutex = Nobody

\* handle_immediate_command("DOC?"): the flatten, read under doc_mutex
DocQuery(p) ==
  /\ server_running
  /\ sess[p].pc = "active"
  /\ DocQueryLock
  /\ reply' = [state |-> "sent", text |-> markdown_flatten(doc)]
  /\ UNCHANGED <<doc, clients, sess, queue, tick, doc_mutex, broadcast_log,
                 enqueued>>
  /\ UNCHANGED <<server_running, callVars, ioVars>>

\* client_handler_thread's loop ends: DISCONNECT, or the stream is closed
Disconnect(p) ==
  /\ server_running
  /\ sess[p].pc = "active"
  /\ sess' = [sess EXCEPT ![p].pc = "cleanup"]
  /\ UNCHANGED <<doc, clients, queue, tick, doc_mutex, broadcast_log,
                 enqueued>>
  /\ reply' = NoReply
  /\ UNCHANGED <<server_running, callVars, ioVars>>

\* cleanup_client_connection: the slot is zeroed
cleanup_client_connection(cl, i) == [cl EXCEPT ![i] = FreeSlot]

Cleanup(p) ==
  /\ server_running
  /\ sess[p].pc = "cleanup"
  /\ clients_mutex = Nobody
  /\ clients' = cleanup_client_connection(clients, sess[p].slot)
  /\ sess' = [sess EXCEPT ![p].pc = "save"]
  /\ UNCHANGED <<doc, queue, tick, doc_mutex, broadcast_log, enqueued>>
  /\ reply' = NoReply
  /\ UNCHANGED <<server_running, callVars, ioVars>>

\* client_handler_thread's last lines: save_document_to_file under doc_mutex
Save(p) ==
  /\ server_running
  /\ sess[p].pc = "save"
  /\ doc_mutex = Nobody
  /\ sess' = [sess EXCEPT ![p] = [pc |-> "exited", slot |-> 0,
                                  username |-> ""]]
  /\ UNCHANGED <<doc, clients, queue, tick, doc_mutex, broadcast_log,
                 enqueued>>
  /\ reply' = NoReply
  /\ UNCHANGED <<server_running, callVars, ioVars>>

\* broadcast_thread wakes with commands queued: the queue is taken whole
TickDrain ==
  /\ server_running
  /\ tick.pc = "sleep"
  /\ queue # <<>>
  /\ tick' = [tick EXCEPT !.pc = "lock", !.commands_to_process = queue]
  /\ queue' = <<>>
  /\ UNCHANGED <<doc, clients, sess, doc_mutex, broadcast_log, enqueued>>
  /\ reply' = NoReply
  /\ UNCHANGED <<server_running, callVars, ioVars>>

\* broadcast_thread takes doc_mutex and starts version_message
TickLock ==
  /\ server_running
  /\ tick.pc = "lock"
  /\ doc_mutex = Nobody
  /\ doc_mutex' = Scheduler
  /\ tick' = [tick EXCEPT
                !.pc = "apply",
                !.old_version = doc.current_version,
                !.pre = markdown_flatten(doc),
                !.version_message =
                   [version |-> doc.current_version + 1, edits |-> <<>>,
                    whole |-> TRUE]]
  /\ UNCHANGED <<doc, clients, sess, queue, broadcast_log, enqueued>>
  /\ reply' = NoReply
  /\ UNCHANGED <<server_running, callVars, ioVars>>

\* one turn of broadcast_thread's loop: the command is executed and its EDIT
\* line appended
TickApply ==
  /\ server_running
  /\ tick.pc = "apply"
  /\ tick.commands_to_process # <<>>
  /\ clients_mutex = Nobody
  /\ LET cmd == Head(tick.commands_to_process)
         r == execute_queued_command(doc, clients, cmd.username, cmd.command)
         edit == [username |-> cmd.username, command |-> cmd.command,
                  result |-> r.result, id |-> cmd.id]
     IN /\ doc' = r.doc
        /\ \E whole \in StillWhole(tick.version_message.whole,
                                   OpenMessageLen(tick.version_message),
                                   EditLen(edit)) :
             tick' = [tick EXCEPT
                        !.commands_to_process =
                           Tail(tick.commands_to_process),
                        !.version_message.edits =
                           Append(tick.version_message.edits, edit),
                        !.version_message.whole = whole]
  /\ UNCHANGED <<clients, sess, queue, doc_mutex, broadcast_log, enqueued>>
  /\ reply' = NoReply
  /\ UNCHANGED <<server_running, callVars, ioVars>>

\* the loop is over: "END" is appended to version_message, and
\* markdown_increment_version begins: nothing without a working list, else
\* the old committed list is freed
TickCommitBegin ==
  /\ server_running
  /\ tick.pc = "apply"
  /\ tick.commands_to_process = <<>>
  /\ \E whole \in StillWhole(tick.version_message.whole,
                             OpenMessageLen(tick.version_message),
                             Len("END") + 1) :
       IF doc.working_head = <<>>
       THEN /\ tick' = [tick EXCEPT !.pc = "broadcast",
                                    !.version_message.whole = whole]
            /\ doc' = doc
       ELSE /\ tick' = [tick EXCEPT !.pc = "promote",
                                    !.version_message.whole = whole]
            /\ doc' = [doc EXCEPT !.committed_head = <<>>]
  /\ UNCHANGED <<clients, sess, queue, doc_mutex, broadcast_log, enqueued>>
  /\ reply' = NoReply
  /\ UNCHANGED <<server_running, callVars, ioVars>>

\* markdown_increment_version ends: the working list is promoted
TickCommitEnd ==
  /\ server_running
  /\ tick.pc = "promote"
  /\ doc' = markdown_increment_version(doc)
  /\ tick' = [tick EXCEPT !.pc = "broadcast"]
  /\ UNCHANGED <<clients, sess, queue, doc_mutex, broadcast_log, enqueued>>
  /\ reply' = NoReply
  /\ UNCHANGED <<server_running, callVars, ioVars>>

\* broadcast_thread appends the message to the log, writes it to the active
\* clients and releases doc_mutex
TickBroadcast ==
  /\ server_running
  /\ tick.pc = "broadcast"
  /\ broadcast_log' \in LogAppend(broadcast_log, tick.version_message)
  /\ doc_mutex' = Nobody
  /\ tick' = [tick EXCEPT !.pc = "sleep"]
  /\ reply' = NoReply
  /\ UNCHANGED <<doc, clients, sess, queue, enqueued>>
  /\ UNCHANGED <<server_running, callVars, ioVars>>

\* the slots the QUIT of stdin_command_thread counts, but for those whose
\* client has not authenticated yet
AuthenticatedClients(cl) ==
  {i \in 1..Len(cl) : cl[i].active /\ cl[i].username # ""}

\* the slots the QUIT of stdin_command_thread counts
ActiveClients(cl) == {i \in 1..Len(cl) : cl[i].active}

\* what markdown_flatten returns to a caller that does not hold doc_mutex:
\* the committed text, or, while markdown_increment_version has freed the old
\* list and not yet linked the new one, what the race leaves of it: the freed
\* bytes, nothing, or the new list
UnlockedFlatten(d) ==
  IF tick.pc = "promote"
  THEN {tick.pre, <<>>, markdown_flatten(markdown_increment_version(d))}
  ELSE {markdown_flatten(d)}

\* stdin_command_thread reads QUIT: rejected while a slot is active, else
\* the document is saved and the process exits
Quit ==
  /\ server_running
  /\ clients_mutex = Nobody
  /\ IF ActiveClients(clients) # {}
     THEN /\ reply' = [state |-> "quit_rejected", text |-> <<>>]
          /\ UNCHANGED <<server_running, doc_md>>
     ELSE /\ reply' = NoReply
          /\ \E content \in UnlockedFlatten(doc) :
               doc_md' = FileWith(content)
          /\ server_running' = FALSE
  /\ UNCHANGED <<doc, clients, sess, queue, tick, doc_mutex, broadcast_log,
                 enqueued>>
  /\ UNCHANGED <<callVars, clients_mutex, loop, out, pipe>>

Init ==
  /\ doc = markdown_init
  /\ ServerInit
  /\ NoCalls
  /\ base = <<>>

Next ==
  \/ \E p \in Procs : Connect(p)
  \/ \E p \in Procs : Authenticate(p)
  \/ \E p \in Procs : Snapshot(p)
  \/ \E p \in Procs, command \in Commands : Enqueue(p, command)
  \/ \E p \in Procs : DocQuery(p)
  \/ \E p \in Procs : Disconnect(p)
  \/ \E p \in Procs : Cleanup(p)
  \/ \E p \in Procs : Save(p)
  \/ TickDrain
  \/ TickLock
  \/ TickApply
  \/ TickCommitBegin
  \/ TickCommitEnd
  \/ TickBroadcast

Spec == Init /\ [][Next]_vars

\* the one command line the sessions send while the console is watched
QuitCommands == {Cmd("INSERT", << <<"0">>, <<"x">> >>)}

\* the server with its console: sessions that connect, send commands and
\* leave, the broadcast thread, and QUIT typed at any moment
QuitNext ==
  \/ \E p \in Procs : Connect(p)
  \/ \E p \in Procs : Authenticate(p)
  \/ \E p \in Procs : Snapshot(p)
  \/ \E p \in Procs, command \in QuitCommands : Enqueue(p, command)
  \/ \E p \in Procs : Disconnect(p)
  \/ \E p \in Procs : Cleanup(p)
  \/ \E p \in Procs : Save(p)
  \/ TickDrain
  \/ TickLock
  \/ TickApply
  \/ TickCommitBegin
  \/ TickCommitEnd
  \/ TickBroadcast
  \/ Quit

QuitSpec == Init /\ [][QuitNext]_vars

(***************************************************************************)
(* The threads step by step, with the FIFOs, doc.md and clients_mutex.     *)
(* A session's pc: "off", "open" (slot taken, FIFOs not open yet), "auth", *)
(* "delay" (rejected, in sleep(AUTH_DELAY_SEC)), "snapshot", "active",     *)
(* "cleanup" (FIFOs closed, slot not freed yet), "save", "exited".         *)
(***************************************************************************)
\* what a FIFO holds unread before a write to it blocks, in messages
PipeCapacity == 2

\* one write to a FIFO
Item(kind, n) == [kind |-> kind, n |-> n]

\* a blocking write of item to p's S2C FIFO has room
CanWrite(p) == pipe[p] < PipeCapacity

Written(p, item) ==
  /\ out' = [out EXCEPT ![p] = Append(@, item)]
  /\ pipe' = [pipe EXCEPT ![p] = @ + 1]

\* handle_client_connection: the first free slot is marked active under
\* clients_mutex, or the client is turned away when there is none
HandleClientConnection(p) ==
  /\ server_running
  /\ sess[p].pc = "off"
  /\ clients_mutex = Nobody
  /\ IF FirstFree(clients) = 0
     THEN UNCHANGED <<clients, sess>>
     ELSE /\ clients' = [clients EXCEPT ![FirstFree(clients)].active = TRUE]
          /\ sess' = [sess EXCEPT ![p] = [pc |-> "open",
                                          slot |-> FirstFree(clients),
                                          username |-> ""]]
  /\ reply' = NoReply
  /\ UNCHANGED <<doc, queue, tick, doc_mutex, broadcast_log, enqueued,
                 server_running, callVars, ioVars>>

\* mkfifo or open fails: cleanup_client_connection and return, with no
\* save_document_to_file
OpenFails(p) ==
  /\ server_running
  /\ sess[p].pc = "open"
  /\ clients_mutex = Nobody
  /\ clients' = cleanup_client_connection(clients, sess[p].slot)
  /\ sess' = [sess EXCEPT ![p] = [pc |-> "exited", slot |-> 0,
                                  username |-> ""]]
  /\ reply' = NoReply
  /\ UNCHANGED <<doc, queue, tick, doc_mutex, broadcast_log, enqueued,
                 server_running, callVars, ioVars>>

\* client_handler_thread has opened both FIFOs and stored the descriptors
\* in its slot
OpenFifos(p) ==
  /\ server_running
  /\ sess[p].pc = "open"
  /\ sess' = [sess EXCEPT ![p].pc = "auth"]
  /\ reply' = NoReply
  /\ UNCHANGED <<doc, clients, queue, tick, doc_mutex, broadcast_log,
                 enqueued, server_running, callVars, ioVars>>

\* client_handler_thread reads the username: a miss is answered with
\* "Reject UNAUTHORISED" and the thread sleeps; a hit is stored in the slot
\* and answered with the role line
ReadUsername(p) ==
  /\ server_running
  /\ sess[p].pc = "auth"
  /\ CanWrite(p)
  /\ LET name == ProcUser[p]
         a == authenticate_client(name)
     IN IF ~a.ok
        THEN /\ sess' = [sess EXCEPT ![p].pc = "delay",
                                     ![p].username = name]
             /\ Written(p, Item("Reject", 0))
             /\ UNCHANGED clients
        ELSE /\ clients' = [clients EXCEPT
                              ![sess[p].slot].username = name,
                              ![sess[p].slot].role = a.role,
                              ![sess[p].slot].permission = a.permission]
             /\ sess' = [sess EXCEPT ![p].pc = "snapshot",
                                     ![p].username = name]
             /\ Written(p, Item("role", a.permission))
  /\ reply' = NoReply
  /\ UNCHANGED <<doc, queue, tick, doc_mutex, broadcast_log, enqueued,
                 server_running, callVars, clients_mutex, loop, doc_md>>

\* sleep(AUTH_DELAY_SEC) returns and the rejected session closes its FIFOs
DelayEnds(p) ==
  /\ server_running
  /\ sess[p].pc = "delay"
  /\ sess' = [sess EXCEPT ![p].pc = "cleanup"]
  /\ reply' = NoReply
  /\ UNCHANGED <<doc, clients, queue, tick, doc_mutex, broadcast_log,
                 enqueued, server_running, callVars, ioVars>>

\* a snapshot sent without waiting for doc_mutex
SendSnapshotUnlocked(p) ==
  /\ server_running
  /\ sess[p].pc = "snapshot"
  /\ CanWrite(p)
  /\ Written(p, Item("snapshot", doc.current_version))
  /\ sess' = [sess EXCEPT ![p].pc = "active"]
  /\ reply' = NoReply
  /\ UNCHANGED <<doc, clients, queue, tick, doc_mutex, broadcast_log,
                 enqueued, server_running, callVars, clients_mutex, loop,
                 doc_md>>

\* client_handler_thread sends version, length and flatten under doc_mutex
SendSnapshot(p) ==
  /\ server_running
  /\ sess[p].pc = "snapshot"
  /\ doc_mutex = Nobody
  /\ CanWrite(p)
  /\ Written(p, Item("snapshot", doc.current_version))
  /\ sess' = [sess EXCEPT ![p].pc = "active"]
  /\ reply' = NoReply
  /\ UNCHANGED <<doc, clients, queue, tick, doc_mutex, broadcast_log,
                 enqueued, server_running, callVars, clients_mutex, loop,
                 doc_md>>

\* client_handler_thread's last lines: doc.md is written under doc_mutex
SaveDocument(p) ==
  /\ server_running
  /\ sess[p].pc = "save"
  /\ doc_mutex = Nobody
  /\ doc_md' = FileWith(markdown_flatten(doc))
  /\ sess' = [sess EXCEPT ![p] = [pc |-> "exited", slot |-> 0,
                                  username |-> ""]]
  /\ reply' = NoReply
  /\ UNCHANGED <<doc, clients, queue, tick, doc_mutex, broadcast_log,
                 enqueued, server_running, callVars, clients_mutex, loop,
                 out, pipe>>

\* the client process reads one message from its FIFO
ClientRead(p) ==
  /\ pipe[p] > 0
  /\ pipe' = [pipe EXCEPT ![p] = @ - 1]
  /\ reply' = NoReply
  /\ UNCHANGED <<doc, clients, sess, queue, tick, doc_mutex, broadcast_log,
                 enqueued, server_running, callVars, clients_mutex, loop,
                 out, doc_md>>

\* the client process whose FIFO the write_fd of slot i names, 0 when the
\* slot's descriptor is not set yet or closed already
StreamOf(i) ==
  LET owners == {p \in AllProcs :
                   /\ sess[p].slot = i
                   /\ sess[p].pc \in {"auth", "delay", "snapshot", "active"}}
  IN IF owners = {} THEN 0 ELSE CHOOSE p \in owners : TRUE

\* broadcast_thread, the version committed: the message goes to the log and
\* clients_mutex is taken, doc_mutex still held
BroadcastBegin ==
  /\ server_running
  /\ tick.pc = "broadcast"
  /\ clients_mutex = Nobody
  /\ broadcast_log' \in LogAppend(broadcast_log, tick.version_message)
  /\ clients_mutex' = Scheduler
  /\ loop' = 1
  /\ tick' = [tick EXCEPT !.pc = "write"]
  /\ reply' = NoReply
  /\ UNCHANGED <<doc, clients, sess, queue, doc_mutex, enqueued,
                 server_running, callVars, out, pipe, doc_md>>

\* a broadcast loop that stops after the first slot
LastSlotFirst(cl) == 1

\* the last slot the broadcast loop visits
LastSlot(cl) == Len(cl)

\* one turn of the broadcast loop: a blocking write to the slot's FIFO when
\* the slot is active
BroadcastWrite ==
  /\ server_running
  /\ tick.pc = "write"
  /\ loop <= LastSlot(clients)
  /\ IF clients[loop].active /\ StreamOf(loop) # 0
     THEN /\ CanWrite(StreamOf(loop))
          /\ Written(StreamOf(loop), Item("broadcast", Len(broadcast_log)))
     ELSE UNCHANGED <<out, pipe>>
  /\ loop' = loop + 1
  /\ reply' = NoReply
  /\ UNCHANGED <<doc, clients, sess, queue, tick, doc_mutex, broadcast_log,
                 enqueued, server_running, callVars, clients_mutex, doc_md>>

\* the loop is over: clients_mutex and doc_mutex are released
BroadcastEnd ==
  /\ server_running
  /\ tick.pc = "write"
  /\ loop > LastSlot(clients)
  /\ clients_mutex' = Nobody
  /\ doc_mutex' = Nobody
  /\ loop' = 0
  /\ tick' = [tick EXCEPT !.pc = "sleep"]
  /\ reply' = NoReply
  /\ UNCHANGED <<doc, clients, sess, queue, broadcast_log, enqueued,
                 server_running, callVars, out, pipe, doc_md>>

\* the command line the sessions send in IoSpec
IoCommands == {Cmd("INSERT", << <<"0">>, <<"x">> >>)}

\* the threads of client processes P, the broadcast thread and the clients
IoNext(P) ==
  \/ \E p \in P : HandleClientConnection(p)
  \/ \E p \in P : OpenFails(p)
  \/ \E p \in P : OpenFifos(p)
  \/ \E p \in P : ReadUsername(p)
  \/ \E p \in P : DelayEnds(p)
  \/ \E p \in P : SendSnapshot(p)
  \/ \E p \in P, command \in IoCommands : Enqueue(p, command)
  \/ \E p \in P : Disconnect(p)
  \/ \E p \in P : Cleanup(p)
  \/ \E p \in P : SaveDocument(p)
  \/ \E p \in P : ClientRead(p)
  \/ TickDrain
  \/ TickLock
  \/ TickApply
  \/ TickCommitBegin
  \/ TickCommitEnd
  \/ BroadcastBegin
  \/ BroadcastWrite
  \/ BroadcastEnd

\* two clients roles.txt knows
IoSpec == Init /\ [][IoNext(Procs)]_vars

\* alice, and eve whom roles.txt does not know
RejectProcs == {1, 3}
RejectSpec == Init /\ [][IoNext(RejectProcs)]_vars

\* the client processes of Procs that roles.txt knows
Joined == {p \in Procs : authenticate_client(ProcUser[p]).ok}

\* the server once every client process of Joined has connected, been
\* authenticated and sent its snapshot, and has read what it was sent; each
\* took the slot of its own number
JoinedInit ==
  /\ doc = markdown_init
  /\ NoCalls
  /\ base = <<>>
  /\ clients = [i \in 1..NumClients |->
                  IF i \in Joined
                  THEN [active |-> TRUE, username |-> ProcUser[i],
                        role |-> authenticate_client(ProcUser[i]).role,
                        permission |->
                          authenticate_client(ProcUser[i]).permission]
                  ELSE FreeSlot]
  /\ sess = [p \in AllProcs |->
               IF p \in Joined
               THEN [pc |-> "active", slot |-> p, username |-> ProcUser[p]]
               ELSE [pc |-> "off", slot |-> 0, username |-> ""]]
  /\ queue = <<>>
  /\ tick = [pc |-> "sleep", commands_to_process |-> <<>>, old_version |-> 0,
             pre |-> <<>>,
             version_message |->
               [version |-> 0, edits |-> <<>>, whole |-> TRUE]]
  /\ doc_mutex = Nobody
  /\ broadcast_log = <<>>
  /\ enqueued = 0
  /\ reply = NoReply
  /\ server_running = TRUE
  /\ clients_mutex = Nobody
  /\ loop = 0
  /\ out = [p \in AllProcs |->
              IF p \in Joined
              THEN <<Item("role", authenticate_client(ProcUser[p]).permission),
                     Item("snapshot", 0)>>
              ELSE <<>>]
  /\ pipe = [p \in AllProcs |-> 0]
  /\ doc_md = Absent
  /\ auth = NotAsked(roles_txt(RolesFile))
  /\ c2s = [p \in AllProcs |-> NoLines]

\* the joined sessions send commands, read and leave while the broadcast
\* thread ticks
BroadcastNext ==
  \/ \E p \in Procs, command \in IoCommands : Enqueue(p, command)
  \/ \E p \in Procs : Disconnect(p)
  \/ \E p \in Procs : Cleanup(p)
  \/ \E p \in Procs : SaveDocument(p)
  \/ \E p \in Procs : ClientRead(p)
  \/ TickDrain
  \/ TickLock
  \/ TickApply
  \/ TickCommitBegin
  \/ TickCommitEnd
  \/ BroadcastBegin
  \/ BroadcastWrite
  \/ BroadcastEnd

BroadcastSpec == JoinedInit /\ [][BroadcastNext]_vars

(***************************************************************************)
(* Handshakes under ticks: alice and bob connect step by step, send        *)
(* commands and read, and stay.                                            *)
(***************************************************************************)
HandshakeNext ==
  \/ \E p \in Procs : HandleClientConnection(p)
  \/ \E p \in Procs : OpenFifos(p)
  \/ \E p \in Procs : ReadUsername(p)
  \/ \E p \in Procs : SendSnapshot(p)
  \/ \E p \in Procs, command \in IoCommands : Enqueue(p, command)
  \/ \E p \in Procs : ClientRead(p)
  \/ TickDrain
  \/ TickLock
  \/ TickApply
  \/ TickCommitBegin
  \/ TickCommitEnd
  \/ BroadcastBegin
  \/ BroadcastWrite
  \/ BroadcastEnd

HandshakeSpec == Init /\ [][HandshakeNext]_vars

(***************************************************************************)
(* The connection signal: SIGRTMIN is blocked in no thread, so its handler *)
(* runs in whichever thread the kernel picks.                              *)
(***************************************************************************)
\* SIGRTMIN of client p is delivered to the broadcast thread inside its
\* write loop: handle_client_connection calls pthread_mutex_lock on
\* clients_mutex, which the interrupted thread holds
HandlerInBroadcast(p) ==
  /\ server_running
  /\ sess[p].pc = "off"
  /\ tick.pc = "write"
  /\ clients_mutex = Scheduler
  /\ tick' = [tick EXCEPT !.pc = "handler"]
  /\ reply' = NoReply
  /\ UNCHANGED <<doc, clients, sess, queue, doc_mutex, broadcast_log,
                 enqueued, server_running, callVars, ioVars>>

SignalNext ==
  \/ HandshakeNext
  \/ \E p \in Procs : HandlerInBroadcast(p)

SignalSpec == Init /\ [][SignalNext]_vars

(***************************************************************************)
(* A late handshake: alice and bob are joined, alice sends commands, bob   *)
(* leaves, and charlie connects step by step into a free slot and reads.   *)
(***************************************************************************)
SnapshotNext ==
  \/ HandleClientConnection(4)
  \/ OpenFifos(4)
  \/ ReadUsername(4)
  \/ SendSnapshot(4)
  \/ ClientRead(4)
  \/ \E command \in IoCommands : Enqueue(1, command)
  \/ Disconnect(2)
  \/ Cleanup(2)
  \/ SaveDocument(2)
  \/ TickDrain
  \/ TickLock
  \/ TickApply
  \/ TickCommitBegin
  \/ TickCommitEnd
  \/ BroadcastBegin
  \/ BroadcastWrite
  \/ BroadcastEnd

SnapshotSpec == JoinedInit /\ [][SnapshotNext]_vars

(***************************************************************************)
(* Command lines in the C2S FIFO: the client writes lines without waiting, *)
(* and the handler's read() takes what the pipe holds.                     *)
(***************************************************************************)
\* the lines a client writes: an edit, and DISCONNECT
ClientLines == IoCommands \cup {Cmd("DISCONNECT", <<>>)}

\* strlen of the lines with their newlines
RECURSIVE LinesLen(_)
LinesLen(lines) ==
  IF lines = <<>> THEN 0
  ELSE CommandLen(Head(lines)) + 1 + LinesLen(Tail(lines))

\* send_command: dprintf of the line and a newline into the FIFO
SendCommand(p, command) ==
  /\ server_running
  /\ sess[p].pc = "active"
  /\ Len(c2s[p].written) < MaxCommands
  /\ c2s' = [c2s EXCEPT ![p].written = Append(@, command),
                        ![p].pending = Append(@, command)]
  /\ reply' = NoReply
  /\ UNCHANGED <<doc, clients, sess, queue, tick, doc_mutex, broadcast_log,
                 enqueued, server_running, calls, base, phase, ioVars, auth>>

\* one turn of client_handler_thread's loop: read() takes the bytes in the
\* pipe, fewer than the buffer holds; the string is cut at its first newline
\* and that line is handled
ReadCommand(p) ==
  /\ server_running
  /\ sess[p].pc = "active"
  /\ c2s[p].pending # <<>>
  /\ LinesLen(c2s[p].pending) <= MAX_CMD_LEN - 1
  /\ LET command == Head(c2s[p].pending)
     IN /\ c2s' = [c2s EXCEPT ![p].handled = Append(@, command),
                              ![p].pending = <<>>]
        /\ IF command.name = "DISCONNECT"
           THEN /\ sess' = [sess EXCEPT ![p].pc = "cleanup"]
                /\ UNCHANGED <<queue, enqueued>>
           ELSE /\ queue' = enqueue_edit_command(queue,
                               [username |-> sess[p].username,
                                command |-> command, id |-> enqueued + 1])
                /\ enqueued' = enqueued + 1
                /\ UNCHANGED sess
  /\ reply' = NoReply
  /\ UNCHANGED <<doc, clients, tick, doc_mutex, broadcast_log,
                 server_running, calls, base, phase, ioVars, auth>>

LineNext ==
  \/ \E p \in Procs, command \in ClientLines : SendCommand(p, command)
  \/ \E p \in Procs : ReadCommand(p)
  \/ \E p \in Procs : Cleanup(p)
  \/ \E p \in Procs : SaveDocument(p)
  \/ TickDrain
  \/ TickLock
  \/ TickApply
  \/ TickCommitBegin
  \/ TickCommitEnd
  \/ TickBroadcast

LineSpec == JoinedInit /\ [][LineNext]_vars

(***************************************************************************)
(* Lookups in a roles file: get_user_permissions on the files and the      *)
(* usernames below.                                                        *)
(***************************************************************************)
\* lines of a roles file
MaxRoleLines == 2

RoleUsernames == {"alice", "Alice", "bob"}
RoleNames == {"read", "write", "Write"}
AskedUsernames == {"alice", "Alice", "eve"}

RoleLines ==
  UNION {[1..n -> {<<u, r>> : u \in RoleUsernames, r \in RoleNames}] :
           n \in 0..MaxRoleLines}

RoleFiles == {NoRolesFile} \cup {roles_txt(lines) : lines \in RoleLines}

AuthInit ==
  /\ doc = markdown_init
  /\ \E file \in RoleFiles : ServerInitWith(file)
  /\ NoCalls
  /\ base = <<>>

\* one call of get_user_permissions: what it returns and what it leaves in
\* role and permission
GetUserPermissions(username) ==
  /\ LET r == get_user_permissions(auth.roles_txt, username)
     IN auth' = [roles_txt |-> auth.roles_txt, asked |-> TRUE,
                 username |-> username,
                 ret |-> IF r.ok THEN 1 ELSE 0,
                 role |-> r.role, permission |-> r.permission]
  /\ UNCHANGED <<doc, clients, sess, queue, tick, doc_mutex, broadcast_log,
                 enqueued, reply, server_running, calls, base, phase, ioVars,
                 c2s>>

AuthNext == \E username \in AskedUsernames : GetUserPermissions(username)

AuthSpec == AuthInit /\ [][AuthNext]_vars

(***************************************************************************)
(* Command lines: alice, a write user, sends lines that follow the wire    *)
(* grammar and lines that do not, and the broadcast thread ticks.          *)
(***************************************************************************)
ParseCommands ==
  {Cmd("INSERT", << <<"0">>, <<"a", "b">> >>),
   Cmd("DEL", << <<"0">>, <<"1">> >>),
   Cmd("NEWLINE", << <<"1">> >>),
   Cmd("HEADING", << <<"1">>, <<"0">> >>),
   Cmd("BOLD", << <<"0">>, <<"1">> >>),
   Cmd("ORDERED_LIST", << <<"0">> >>),
   Cmd("LINK", << <<"0">>, <<"1">>, <<"u">> >>),
   Cmd("FOO", << <<"0">> >>),
   Cmd("NEWLINE", <<>>),
   Cmd("NEWLINE", << <<"z">> >>),
   Cmd("NEWLINE", << <<"0", "x">> >>),
   Cmd("DEL", << <<"0", "x">>, <<"1">> >>),
   Cmd("INSERT", << <<"0">> >>)}

CommandNext ==
  \/ \E command \in ParseCommands : Enqueue(1, command)
  \/ TickDrain
  \/ TickLock
  \/ TickApply
  \/ TickCommitBegin
  \/ TickCommitEnd
  \/ TickBroadcast

CommandSpec == JoinedInit /\ [][CommandNext]_vars

(***************************************************************************)
(* Long runs: one client sending the longest command line there is, for    *)
(* the bytes of version_message and broadcast_log.                         *)
(***************************************************************************)
\* commands enqueued in one long run
MaxLogCommands == 35
\* the commands a tick finds when the client has sent many in one interval
BigBatch == MaxLogCommands - 1

\* a command whose line, newline included, has MAX_CMD_LEN - 1 bytes, as
\* many as one read() takes; its argument is no number
LongCommand ==
  Cmd("BOLD", << [k \in 1..(MAX_CMD_LEN - 2 - Len("BOLD") - 1) |-> "z"] >>)

\* alice connects, may insert a letter first, and sends long commands; a
\* tick comes after every command or after many
LogNext ==
  \/ Connect(1)
  \/ Authenticate(1)
  \/ Snapshot(1)
  \/ \E command \in IoCommands : EnqueueWithin(1, command, 1)
  \/ EnqueueWithin(1, LongCommand, MaxLogCommands)
  \/ (Len(queue) = 1 \/ Len(queue) >= BigBatch) /\ TickDrain
  \/ TickLock
  \/ TickApply
  \/ TickCommitBegin
  \/ TickCommitEnd
  \/ TickBroadcast

LogSpec == Init /\ [][LogNext]_vars



\* the words of the scenarios
Hello_ == <<"H", "e", "l", "l", "o", " ">>
World == <<"W", "o", "r", "l", "d">>
Earth == <<"E", "a", "r", "t", "h">>
ScenInserts == {Hello_, World, Earth}
ScenPositions == {0, 5, 6, 11}
ScenLens == {5, 6}
ScenDocs ==
  {DocOf(<<>>),
   DocOf(<<Seg(Hello_ \o World, COMMITTED_ORIGINAL)>>),
   DocOf(<<Seg(Hello_, COMMITTED_ORIGINAL), Seg(World, COMMITTED_ORIGINAL)>>)}

ScenInit ==
  /\ doc \in ScenDocs
  /\ ServerInit
  /\ NoCalls
  /\ base = markdown_flatten(doc)

ScenNext ==
  \/ \E pos \in ScenPositions, text \in ScenInserts :
        Insert(doc.current_version, pos, text)
  \/ \E pos \in ScenPositions, len \in ScenLens :
        Delete(doc.current_version, pos, len)
  \/ Commit

ScenSpec == ScenInit /\ [][ScenNext]_vars

(***************************************************************************)
(* Claims on the document.                                                 *)
(***************************************************************************)
\* text t with u put in at position pos
(***************************************************************************)
(* Claims about the server.                                                *)
(***************************************************************************)
\* the EDIT lines of the messages broadcast so far, oldest first
RECURSIVE LogEdits(_)
LogEdits(log) ==
  IF log = <<>> THEN <<>> ELSE Head(log).edits \o LogEdits(Tail(log))

\* the EDIT lines written so far: those broadcast and those of the batch in
\* progress
EditLines ==
  LogEdits(broadcast_log)
    \o (IF InBatch THEN tick.version_message.edits ELSE <<>>)

Ids(nodes) == [k \in 1..Len(nodes) |-> nodes[k].id]

\* C1: a tick that drained at least one command, whatever became of its
\* commands, has raised current_version by exactly one when it broadcasts
C1_TickAddsOne ==
  tick.pc = "broadcast" => doc.current_version = tick.old_version + 1

\* C2: the number on a message's VERSION line is the document's
\* current_version after that tick's commit, and the VERSION numbers of
\* successive broadcasts are strictly increasing
C2_VersionLineIsCommitted ==
  /\ tick.pc = "broadcast"
       => tick.version_message.version = doc.current_version
  /\ \A i \in 1..Len(broadcast_log), j \in 1..Len(broadcast_log) :
       i < j => broadcast_log[i].version < broadcast_log[j].version

\* C3: the EDIT lines, in the order they were written, followed by the
\* commands drained and not yet applied and by the commands still queued,
\* are the commands in the order they were enqueued, each exactly once; an
\* EDIT line is written as its command is applied
C3_Fifo ==
  Ids(EditLines \o tick.commands_to_process \o queue)
    = [k \in 1..enqueued |-> k]

\* one broadcast carries the commands of two sessions
C3_Witness ==
  \E k \in 1..Len(broadcast_log) :
    LET edits == broadcast_log[k].edits
    IN /\ Len(edits) = 2
       /\ edits[1].username # edits[2].username
       /\ edits[1].id < edits[2].id

\* what the batch in progress leaves of a document: its remaining commands
\* applied and the result committed
RECURSIVE BatchDoc(_, _)
BatchDoc(d, cmds) ==
  IF cmds = <<>> THEN markdown_increment_version(d)
  ELSE BatchDoc(execute_queued_command(d, clients, Head(cmds).username,
                                       Head(cmds).command).doc,
                Tail(cmds))

\* the committed text before the batch in progress, and after it
PreBatch == IF InBatch THEN tick.pre ELSE markdown_flatten(doc)
PostBatch ==
  IF InBatch THEN markdown_flatten(BatchDoc(doc, tick.commands_to_process))
  ELSE markdown_flatten(doc)

\* C4: a DOC? reply is the committed text as it was before the batch it met
\* or as it is after the whole of that batch
C4_DocQuerySnapshot ==
  reply.state = "sent" => reply.text \in {PreBatch, PostBatch}

\* a DOC? answered after a tick drained the queue and before it took
\* doc_mutex, on a document an earlier tick wrote
C4_Witness ==
  /\ reply.state = "sent"
  /\ reply.text = <<"x">>
  /\ tick.pc = "lock"
  /\ tick.commands_to_process # <<>>

\* the role roles.txt gives a user
RoleOf(username) == authenticate_client(username).role

\* C5: an edit command of a user whose role is read gets the result
\* "Reject UNAUTHORISED" whether or not its arguments parse, and applying
\* it leaves the document as it was
C5_ReadOnlyRejected ==
  [][(tick.pc = "apply" /\ tick.commands_to_process # <<>>
        /\ tick' # tick
        /\ RoleOf(Head(tick.commands_to_process).username) = "read"
        /\ Head(tick.commands_to_process).command.name \in write_commands)
     => (/\ tick'.version_message.edits[Len(tick'.version_message.edits)].result
             = "Reject UNAUTHORISED"
         /\ doc' = doc)]_vars

\* a connected read user's BOLD whose arguments do not parse, rejected as
\* unauthorised after a write user's INSERT changed the document
C5_Witness ==
  /\ InBatch
  /\ \E k \in 1..Len(tick.version_message.edits) :
       LET e == tick.version_message.edits[k]
       IN /\ e.username = "bob"
          /\ e.command = Cmd("BOLD", << <<"z">> >>)
          /\ e.result = "Reject UNAUTHORISED"
  /\ \E i \in 1..Len(clients) :
       clients[i].active /\ clients[i].username = "bob"
  /\ doc.working_head # <<>>

\* C6: no edit command of a user whose role is write gets the result
\* "Reject UNAUTHORISED", however the session's disconnect and teardown
\* interleave with the tick
C6_WriterNeverUnauthorised ==
  \A k \in 1..Len(EditLines) :
    RoleOf(EditLines[k].username) = "write"
      => EditLines[k].result # "Reject UNAUTHORISED"

(***************************************************************************)
(* Claims about the document.                                              *)
(***************************************************************************)
TextWith(t, pos, u) == Prefix(t, pos) \o u \o Suffix(t, pos)

IsCall(c, op, args) == c.op = op /\ c.args = args /\ c.ret = SUCCESS

\* the batch just committed is two successful inserts at one position
TwoInsertsAt(pos, a, b) ==
  /\ phase = "committed"
  /\ Len(calls.seq) = 2
  /\ IsCall(calls.seq[1], "insert", <<pos, a>>)
  /\ IsCall(calls.seq[2], "insert", <<pos, b>>)

\* C7 as stated: two inserts at one position in one batch commit in arrival
\* order, a then b at pos
C7_ArrivalOrder ==
  \A pos \in 0..Len(base), a \in LawInserts, b \in LawInserts :
    TwoInsertsAt(pos, a, b) =>
      markdown_flatten(doc) = TextWith(base, pos, a \o b)

\* C7 amended: two inserts at one position in one batch commit in reverse
\* arrival order, the later text b in front of the earlier text a at pos
C7_ReverseArrivalOrder ==
  \A pos \in 0..Len(base), a \in LawInserts, b \in LawInserts :
    TwoInsertsAt(pos, a, b) =>
      markdown_flatten(doc) = TextWith(base, pos, b \o a)

C7_Witness ==
  /\ TwoInsertsAt(1, <<"x">>, <<"y", "z">>)
  /\ base = <<"a", "b">>
  /\ markdown_flatten(doc) = <<"a", "y", "z", "x", "b">>

\* C8: from the empty document at version 0, insert(0,0,"World") then
\* insert(0,0,"Hello ") and a commit give "Hello World" at version 1
C8_HelloWorld ==
  (TwoInsertsAt(0, World, Hello_) /\ base = <<>>
     /\ calls.seq[1].version = 0 /\ calls.seq[2].version = 0)
  => (markdown_flatten(doc) = Hello_ \o World /\ doc.current_version = 1)

C8_Witness ==
  /\ TwoInsertsAt(0, World, Hello_) /\ base = <<>>
  /\ doc.current_version = 1

\* the batch just committed is delete(pos, len) then insert(pos, text)
DeleteThenInsert(pos, len, text) ==
  /\ phase = "committed"
  /\ Len(calls.seq) = 2
  /\ calls.seq[1].op = "delete" /\ calls.seq[1].args = <<pos, len>>
  /\ calls.seq[2].op = "insert" /\ calls.seq[2].args = <<pos, text>>

\* C9: a delete of a range of the document followed in the same batch by an
\* insert at the start of the range replaces the range, both calls succeed
\* and the version goes up by one; on "Hello World" at version 1,
\* delete(1,6,5) then insert(1,6,"Earth") commit to "Hello Earth" at version 2
C9_DeleteInsertReplaces ==
  \A pos \in ScenPositions, len \in ScenLens, text \in ScenInserts :
    (DeleteThenInsert(pos, len, text) /\ pos + len <= Len(base)) =>
      /\ calls.seq[1].ret = SUCCESS /\ calls.seq[2].ret = SUCCESS
      /\ markdown_flatten(doc)
           = Prefix(base, pos) \o text \o Suffix(base, pos + len)
      /\ doc.current_version = calls.seq[1].version + 1

C9_Witness ==
  /\ DeleteThenInsert(6, 5, Earth)
  /\ base = Hello_ \o World
  /\ calls.seq[1].version = 1 /\ calls.seq[2].version = 1
  /\ markdown_flatten(doc) = Hello_ \o Earth
  /\ doc.current_version = 2

\* C10: every edit operation called with a version that is not the document's
\* current_version returns OUTDATED_VERSION and changes neither the committed
\* list, the working list nor the version
C10_OutdatedVersionNoEffect ==
  [][(phase' = "open"
       /\ calls'.seq[Len(calls'.seq)].version # doc.current_version)
     => (calls'.seq[Len(calls'.seq)].ret = OUTDATED_VERSION /\ doc' = doc)]_vars

\* a call with an outdated version made while a working list is pending
C10_Witness ==
  /\ phase = "open"
  /\ Len(calls.seq) = 2
  /\ calls.seq[1].ret = SUCCESS
  /\ calls.seq[2].version # doc.current_version
  /\ calls.seq[2].ret = OUTDATED_VERSION
  /\ doc.working_head # <<>>

(***************************************************************************)
(* Claims about the arguments of the edit operations.                      *)
(***************************************************************************)
\* the call a step has just recorded
LastCall == calls.seq[Len(calls.seq)]

\* a step records a call made with the current version on a document with no
\* working list
FirstCallStep ==
  /\ phase # "open" /\ phase' = "open"
  /\ calls'.seq[Len(calls'.seq)].version = doc.current_version
  /\ doc.working_head = <<>>

RangeOps == {"bold", "italic", "code", "link"}
PositionOps ==
  {"insert", "newline", "heading", "blockquote", "ordered_list",
   "unordered_list", "horizontal_rule"}

\* the position argument of a call of a position operation
PosArg(c) == IF c.op = "heading" THEN c.args[2] ELSE c.args[1]

\* the call has a position beyond length, or a range that is empty or
\* reversed
OutOfRange(c, length) ==
  \/ c.op \in PositionOps /\ PosArg(c) > length
  \/ c.op \in RangeOps
       /\ (c.args[1] > length \/ c.args[2] > length
             \/ c.args[2] <= c.args[1])

HasPendingIns(w) == \E i \in 1..Len(w) : w[i].state = PENDING_INS

\* C11: an edit operation whose position, start or end is greater than the
\* document's length, or whose range has end <= start, returns
\* INVALID_CURSOR_POS and inserts nothing
C11_OutOfRangeRejected ==
  [][(FirstCallStep
        /\ OutOfRange(calls'.seq[Len(calls'.seq)],
                      Len(markdown_flatten(doc))))
     => (/\ calls'.seq[Len(calls'.seq)].ret = INVALID_CURSOR_POS
         /\ ~HasPendingIns(doc'.working_head))]_vars

\* the text a commit of document d would leave
CommittedText(d) == markdown_flatten(markdown_increment_version(d))

\* C12: a delete whose pos + len exceeds the document's length returns
\* INVALID_CURSOR_POS and deletes nothing: a commit leaves the text as it was
C12_DeletePastEndRejected ==
  [][(FirstCallStep
        /\ calls'.seq[Len(calls'.seq)].op = "delete"
        /\ calls'.seq[Len(calls'.seq)].args[1]
             + calls'.seq[Len(calls'.seq)].args[2]
           > Len(markdown_flatten(doc)))
     => (/\ calls'.seq[Len(calls'.seq)].ret = INVALID_CURSOR_POS
         /\ CommittedText(doc') = markdown_flatten(doc))]_vars

(***************************************************************************)
(* Claims about the lists.                                                 *)
(***************************************************************************)
\* the bytes of the segments of a working list that are not PENDING_DEL
WorkingText(w) ==
  ConcatContents(SelectSeq(w, LAMBDA seg : seg.state # PENDING_DEL))

\* C13: every segment of the committed list is COMMITTED_ORIGINAL in every
\* state, and a commit of a working list leaves as committed text the bytes
\* of its segments that are not PENDING_DEL, in order
C13_CommittedListClean ==
  /\ [](\A i \in 1..Len(doc.committed_head) :
          doc.committed_head[i].state = COMMITTED_ORIGINAL)
  /\ [][(phase = "open" /\ phase' = "committed" /\ doc.working_head # <<>>)
        => markdown_flatten(doc') = WorkingText(doc.working_head)]_vars

\* a commit of a working list holding a deleted and an inserted segment
C13_Witness ==
  /\ phase = "committed"
  /\ Len(calls.seq) = 2
  /\ calls.seq[1].op = "delete" /\ calls.seq[1].ret = SUCCESS
  /\ calls.seq[2].op = "insert" /\ calls.seq[2].ret = SUCCESS
  /\ base = <<"a", "b">>
  /\ markdown_flatten(doc) = <<"a", "x">>
  /\ Len(doc.committed_head) = 2

\* C14: between ticks, total_length is the number of bytes of the committed
\* text
C14_TotalLengthIsFlattenLength ==
  tick.pc = "sleep" => doc.total_length = Len(markdown_flatten(doc))

\* the last two batches committed were one successful insert of a at pos and
\* one successful insert of b at pos
TwoTickInserts(pos, a, b) ==
  /\ phase = "committed"
  /\ Len(calls.prev) = 1 /\ IsCall(calls.prev[1], "insert", <<pos, a>>)
  /\ Len(calls.seq) = 1 /\ IsCall(calls.seq[1], "insert", <<pos, b>>)

\* C15 as stated: a inserted at pos in one tick and b at pos in the next
\* yield a followed by b at pos
C15_LaterInsertAfter ==
  \A pos \in 0..Len(calls.prevbase), a \in LawInserts, b \in LawInserts :
    TwoTickInserts(pos, a, b) =>
      markdown_flatten(doc) = TextWith(calls.prevbase, pos, a \o b)

\* C15 amended: a inserted at pos in one tick and b at pos in the next yield
\* b followed by a at pos: the later insertion lands at pos, in front of a
C15_LaterInsertInFront ==
  \A pos \in 0..Len(calls.prevbase), a \in LawInserts, b \in LawInserts :
    TwoTickInserts(pos, a, b) =>
      markdown_flatten(doc) = TextWith(calls.prevbase, pos, b \o a)

C15_Witness ==
  /\ TwoTickInserts(1, <<"x">>, <<"y", "z">>)
  /\ calls.prevbase = <<"a", "b">>
  /\ markdown_flatten(doc) = <<"a", "y", "z", "x", "b">>

(***************************************************************************)
(* Claims about the formatting operations.                                 *)
(***************************************************************************)
\* the batch just committed is one call of op, made with the current version
OneCall(op) ==
  /\ phase = "committed"
  /\ Len(calls.seq) = 1
  /\ calls.seq[1].op = op
  /\ calls.seq[1].ret # OUTDATED_VERSION

\* the newline a block element gets in front of it at pos of text t
BlockNewline(t, pos) ==
  IF pos > 0 /\ t[pos] # "\n" THEN <<"\n">> ELSE <<>>

\* C16: heading(v, level, pos) with level in 1..3 and pos within the text,
\* then a commit, gives the text with a newline (when pos > 0 and the byte
\* before pos is no newline), level '#' characters and a space put in at
\* pos; a level outside 1..3 returns INVALID_CURSOR_POS
C16_HeadingAtPos ==
  OneCall("heading") =>
    LET level == calls.seq[1].args[1]
        pos == calls.seq[1].args[2]
    IN IF level \in 1..3
       THEN pos <= Len(base) =>
              /\ calls.seq[1].ret = SUCCESS
              /\ markdown_flatten(doc)
                   = TextWith(base, pos,
                              BlockNewline(base, pos) \o HeadingStr(level))
       ELSE calls.seq[1].ret = INVALID_CURSOR_POS

\* the marker of a block operation
BlockMarker(op) ==
  CASE op = "blockquote" -> <<">", " ">>
    [] op = "unordered_list" -> <<"-", " ">>
    [] op = "horizontal_rule" -> <<"-", "-", "-", "\n">>

BlockOps == {"blockquote", "unordered_list", "horizontal_rule"}

\* C17: blockquote, unordered_list and horizontal_rule at pos within the text
\* put their marker in at pos, as it is when pos = 0 or the byte before pos
\* is a newline and with a newline in front of it otherwise; pos beyond the
\* text returns INVALID_CURSOR_POS and changes nothing
C17_BlockMarkerAtPos ==
  \A op \in BlockOps :
    OneCall(op) =>
      LET pos == calls.seq[1].args[1]
      IN IF pos <= Len(base)
         THEN /\ calls.seq[1].ret = SUCCESS
              /\ markdown_flatten(doc)
                   = TextWith(base, pos,
                              BlockNewline(base, pos) \o BlockMarker(op))
         ELSE /\ calls.seq[1].ret = INVALID_CURSOR_POS
              /\ markdown_flatten(doc) = base

\* a blockquote after a newline, put in as it is
C17_Witness ==
  /\ OneCall("blockquote")
  /\ calls.seq[1].args = <<2>>
  /\ base = <<"a", "\n", "b">>
  /\ markdown_flatten(doc) = <<"a", "\n", ">", " ", "b">>

\* the lines "1. ", "2. ", ... "k. "
RECURSIVE OrderedItems(_)
OrderedItems(k) ==
  IF k = 0 THEN <<>>
  ELSE OrderedItems(k - 1) \o (IF k > 1 THEN <<"\n">> ELSE <<>>)
       \o Decimal(k) \o <<".", " ">>

\* the batch just committed is ordered_list(v, 0) called one or more times
\* on the empty document
OrderedListsAtZero ==
  /\ phase = "committed"
  /\ base = <<>>
  /\ \A i \in 1..Len(calls.seq) :
       /\ calls.seq[i].op = "ordered_list"
       /\ calls.seq[i].args = <<0>>
       /\ calls.seq[i].ret = SUCCESS

\* C18: the items ordered_list inserted earlier in the same tick count for
\* the number of the next: k calls of ordered_list(v, 0) in one tick on the
\* empty document commit to the lines "1. " to "k. "
C18_OrderedListCounts ==
  OrderedListsAtZero => markdown_flatten(doc) = OrderedItems(Len(calls.seq))

\* what a range operation puts in front of the range and behind it
OpenMarker(c) ==
  CASE c.op = "bold" -> <<"*", "*">>
    [] c.op = "italic" -> <<"*">>
    [] c.op = "code" -> <<Backtick>>
    [] c.op = "link" -> <<"[">>
CloseMarker(c) ==
  CASE c.op = "bold" -> <<"*", "*">>
    [] c.op = "italic" -> <<"*">>
    [] c.op = "code" -> <<Backtick>>
    [] c.op = "link" -> <<"]", "(">> \o c.args[3] \o <<")">>

\* text t with the bytes from start up to end wrapped in open and close
Wrapped(t, start, end, open, close) ==
  Prefix(t, start) \o open \o SubSeq(t, start + 1, end) \o close
    \o Suffix(t, end)

\* the last two batches committed were bold(s, e) and bold(s + 2, e + 2)
BoldTwice(s, e) ==
  /\ phase = "committed"
  /\ Len(calls.prev) = 1 /\ IsCall(calls.prev[1], "bold", <<s, e>>)
  /\ Len(calls.seq) = 1 /\ IsCall(calls.seq[1], "bold", <<s + 2, e + 2>>)

\* C19: bold, italic, code and link with start < end <= length succeed and
\* wrap exactly the bytes from start up to end in their markers; bold(v,s,e)
\* and, a tick later, bold(v+1,s+2,e+2) wrap them in four asterisks on each
\* side
C19_RangeWrapped ==
  /\ \A op \in RangeOps :
       (OneCall(op) /\ calls.seq[1].args[1] < calls.seq[1].args[2]
          /\ calls.seq[1].args[2] <= Len(base))
       => /\ calls.seq[1].ret = SUCCESS
          /\ markdown_flatten(doc)
               = Wrapped(base, calls.seq[1].args[1], calls.seq[1].args[2],
                         OpenMarker(calls.seq[1]), CloseMarker(calls.seq[1]))
  /\ \A r \in FormatRanges :
       (BoldTwice(r[1], r[2]) /\ r[2] <= Len(calls.prevbase))
       => markdown_flatten(doc)
            = Wrapped(calls.prevbase, r[1], r[2],
                      <<"*", "*", "*", "*">>, <<"*", "*", "*", "*">>)

\* bold(1,0,1) on "ab", and bold(2,2,3) a tick later
C19_Witness ==
  /\ BoldTwice(0, 1)
  /\ calls.prevbase = <<"a", "b">>
  /\ markdown_flatten(doc)
       = <<"*", "*", "*", "*", "a", "*", "*", "*", "*", "b">>

(***************************************************************************)
(* Claims about the server's console.                                      *)
(***************************************************************************)
SomeSlotActive == \E i \in 1..Len(clients) : clients[i].active

\* C20: while a slot of clients[] is active no step ends the process, and a
\* QUIT that is rejected leaves document, queue, slots, sessions and the
\* broadcast thread as they were; the process ends only by a QUIT with no
\* slot active
C20_QuitRefusedWhileActive ==
  [][/\ SomeSlotActive => server_running' = server_running
     /\ reply'.state = "quit_rejected"
          => /\ SomeSlotActive
             /\ UNCHANGED <<doc, queue, clients, sess, tick, broadcast_log,
                            server_running>>
     /\ (server_running /\ ~server_running')
          => /\ ~SomeSlotActive
             /\ UNCHANGED <<doc, queue, clients, sess, tick, broadcast_log>>
    ]_vars

\* a QUIT rejected with a command waiting in the queue
C20_Witness ==
  /\ reply.state = "quit_rejected"
  /\ server_running
  /\ queue # <<>>
  /\ SomeSlotActive

(***************************************************************************)
(* Claims about the streams, the locks and doc.md.                         *)
(***************************************************************************)
\* the broadcast loop stands at a slot whose FIFO is full: its write()
\* returns only when the client reads
BroadcastBlocked ==
  /\ tick.pc = "write"
  /\ loop <= LastSlot(clients)
  /\ clients[loop].active
  /\ StreamOf(loop) # 0
  /\ ~CanWrite(StreamOf(loop))

\* C21: a client that stops reading its FIFO never holds the broadcast
\* thread up: the thread is never left waiting for that client inside the
\* broadcast loop, where it holds doc_mutex and clients_mutex and keeps
\* every later tick, broadcast and query reply waiting with it
C21_SlowClientNeverStalls ==
  ~(BroadcastBlocked /\ doc_mutex = Scheduler /\ clients_mutex = Scheduler)

\* C22: locks are taken in the order sessions lock (clients_mutex), document
\* lock (doc_mutex), queue lock: no thread takes clients_mutex while it holds
\* doc_mutex.  (The queue lock is taken and released inside TickDrain and
\* Enqueue, with no other lock taken in between.)
C22_LockOrder ==
  [][~(/\ doc_mutex = Scheduler
       /\ clients_mutex = Nobody
       /\ clients_mutex' = Scheduler)]_vars

\* the ticks whose broadcast messages a stream holds, in the order written
Broadcasts(items) ==
  LET b == SelectSeq(items, LAMBDA it : it.kind = "broadcast")
  IN [k \in 1..Len(b) |-> b[k].n]

\* the ticks whose broadcast loop is over
TicksDone ==
  IF tick.pc = "write" THEN Len(broadcast_log) - 1 ELSE Len(broadcast_log)

\* C23: every stream carries the broadcast messages of successive ticks,
\* each whole and once, in tick order; a session that is active holds the
\* message of every tick whose broadcast is over before any stream holds a
\* message of a later tick, and while a broadcast is under way it is the only
\* one some active session may still lack
C23_BroadcastInTickOrder ==
  /\ \A p \in AllProcs :
       /\ Len(Broadcasts(out[p])) <= Len(broadcast_log)
       /\ Broadcasts(out[p]) = [k \in 1..Len(Broadcasts(out[p])) |-> k]
  /\ \A p \in AllProcs :
       sess[p].pc = "active" => Len(Broadcasts(out[p])) >= TicksDone
  /\ \A p \in AllProcs :
       (sess[p].pc = "active" /\ tick.pc = "write" /\ sess[p].slot < loop)
         => Len(Broadcasts(out[p])) = Len(broadcast_log)

\* the second tick's broadcast under way: alice's stream holds both
\* messages, bob's the first only
C23_Witness ==
  /\ tick.pc = "write"
  /\ Len(broadcast_log) = 2
  /\ sess[1].pc = "active" /\ sess[2].pc = "active"
  /\ Broadcasts(out[1]) = <<1, 2>>
  /\ Broadcasts(out[2]) = <<1>>

\* C24: a tick that drained commands sends exactly one complete message: the
\* VERSION line, one EDIT line for each drained command in their order, and
\* END; no message without an EDIT line is ever built or logged
C24_OneCompleteMessage ==
  /\ tick.pc = "broadcast" =>
       /\ tick.version_message.whole
       /\ tick.version_message.edits # <<>>
       /\ \A k \in 1..(Len(tick.version_message.edits) - 1) :
            tick.version_message.edits[k + 1].id
              = tick.version_message.edits[k].id + 1
  /\ \A k \in 1..Len(broadcast_log) : broadcast_log[k].edits # <<>>

\* C25: the log is the concatenation of every message sent so far: a
\* message that was complete when it was sent is complete in broadcast_log,
\* however many came before it
C25_LogKeepsEveryMessage ==
  \A k \in 1..Len(broadcast_log) :
     MessageLen(broadcast_log[k]) + 1 <= MAX_LOG_LEN
       => broadcast_log[k].whole

(***************************************************************************)
(* Claims about the roles file, the rejected client and the commands.      *)
(***************************************************************************)
\* the lines of the file asked whose username is, byte for byte, the one
\* asked for
MatchingLines ==
  {k \in 1..Len(auth.roles_txt.lines) :
     auth.roles_txt.lines[k][1] = auth.username}

\* C26: a lookup succeeds exactly when the roles file exists and has a line
\* with exactly the username asked for; the role returned is that of the
\* first such line, and the permission is write exactly when that role is
\* "write"; with the file missing every lookup fails
C26_Authentication ==
  auth.asked =>
    /\ auth.ret = 1 <=> (auth.roles_txt.exists /\ MatchingLines # {})
    /\ ~auth.roles_txt.exists => auth.ret = 0
    /\ auth.ret = 1 =>
         \E first \in MatchingLines :
            /\ \A k \in MatchingLines : first <= k
            /\ auth.role = auth.roles_txt.lines[first][2]
            /\ auth.permission = 1 <=> auth.role = "write"
            /\ auth.permission \in {0, 1}

\* alice is looked up in a file that lists alice twice:
\* the first line, the read one, decides
C26_Witness ==
  /\ auth.asked
  /\ auth.username = "alice"
  /\ auth.roles_txt = roles_txt(<< <<"alice", "read">>, <<"alice", "write">> >>)
  /\ auth.ret = 1
  /\ auth.role = "read"
  /\ auth.permission = 0

\* C27: a client whose username is not in roles.txt is sent the one line
\* "Reject UNAUTHORISED" and nothing else, whatever the ticks do meanwhile,
\* and no command of it is enqueued or under way
C27_RejectedClientGetsOnlyReject ==
  \A p \in AllProcs :
     ~authenticate_client(ProcUser[p]).ok =>
        /\ Len(out[p]) <= 1
        /\ \A k \in 1..Len(out[p]) : out[p][k].kind = "Reject"
        /\ \A k \in 1..Len(queue) : queue[k].username # ProcUser[p]
        /\ \A k \in 1..Len(tick.commands_to_process) :
              tick.commands_to_process[k].username # ProcUser[p]

\* C28: no EDIT line, logged or being built, has the result
\* Reject OUTDATED_VERSION or Reject DELETED_POSITION, and while a batch is
\* applied the document's version is the one the batch began with
C28_NoOutdatedOrDeleted ==
  /\ \A k \in 1..Len(EditLines) :
        EditLines[k].result
          \notin {"Reject OUTDATED_VERSION", "Reject DELETED_POSITION"}
  /\ tick.pc = "apply" => doc.current_version = tick.old_version

\* two ticks have committed one successful edit each: the second was
\* dispatched at version 1, after every client had been told version 0
C28_Witness ==
  /\ Len(broadcast_log) = 2
  /\ broadcast_log[1].version = 1
  /\ broadcast_log[2].version = 2
  /\ \A k \in 1..2 :
        /\ Len(broadcast_log[k].edits) = 1
        /\ broadcast_log[k].edits[1].result = "SUCCESS"
  /\ doc.current_version = 2

\* the numbers a command of the wire grammar begins with, and whether a text
\* follows them
NumbersOf(name) ==
  IF name \in {"DEL", "HEADING", "BOLD", "ITALIC", "CODE", "LINK"} THEN 2
  ELSE 1
TextFollows(name) == name \in {"INSERT", "LINK"}

\* a line of the wire grammar: a known name, its numbers written in digits
\* only, and its text where it has one
WellFormed(command) ==
  /\ command.name \in write_commands
  /\ Len(command.args) >= NumbersOf(command.name)
  /\ \A k \in 1..NumbersOf(command.name) :
        /\ command.args[k] # <<>>
        /\ \A j \in 1..Len(command.args[k]) : isdigit(command.args[k][j])
  /\ TextFollows(command.name)
       => Len(command.args) > NumbersOf(command.name)

\* C29: a command line of a write user that is not of the wire grammar
\* (unknown name, a number missing or not a number) gets the EDIT result
\* Reject INVALID_POSITION, and its sender stays Active
C29_MalformedIsInvalidPosition ==
  \A k \in 1..Len(EditLines) :
     (/\ ~WellFormed(EditLines[k].command)
      /\ LookupPermission(clients, 1, EditLines[k].username) = 1)
       => /\ EditLines[k].result = "Reject INVALID_POSITION"
          /\ \E p \in Procs :
                sess[p].username = EditLines[k].username
                  /\ sess[p].pc = "active"

\* C30: whenever a session is torn down, from whatever state, doc.md is
\* written in that step and holds exactly the committed text of that moment
C30_TeardownSaves ==
  [][\A p \in AllProcs :
       (sess[p].pc # "exited" /\ sess'[p].pc = "exited")
         => doc_md' = FileWith(markdown_flatten(doc'))]_vars

(***************************************************************************)
(* Claims about the handshake, the pending segments and the command lines. *)
(***************************************************************************)
\* C31: in every stream the role line is followed at once by the snapshot
\* (version, length, bytes): no broadcast stands between the two
C31_HandshakeUninterrupted ==
  \A p \in AllProcs :
     \A k \in 1..(Len(out[p]) - 1) :
        out[p][k].kind = "role" => out[p][k + 1].kind = "snapshot"

\* C32 as stated: a delete counts the bytes inserted earlier in the same
\* tick: when a batch inserts a text at pos and then deletes, from pos, as
\* many bytes as it inserted, the insertion is what goes, and the commit
\* leaves the text the batch began with
C32_DeleteRemovesPendingInsert ==
  \A pos \in 0..Len(base), text \in LawInserts :
     (/\ phase = "committed"
      /\ Len(calls.seq) = 2
      /\ IsCall(calls.seq[1], "insert", <<pos, text>>)
      /\ IsCall(calls.seq[2], "delete", <<pos, Len(text)>>))
       => markdown_flatten(doc) = base

\* text t from byte k on, with u in front of byte pos and without the bytes
\* from, from + 1, ..., from + len - 1 of t
RECURSIVE InsertedAndCut(_, _, _, _, _, _)
InsertedAndCut(t, k, pos, u, from, len) ==
  IF k > Len(t) THEN <<>>
  ELSE (IF k = pos THEN u ELSE <<>>)
       \o (IF k < Len(t) /\ ~(from <= k /\ k < from + len)
           THEN <<t[k + 1]>> ELSE <<>>)
       \o InsertedAndCut(t, k + 1, pos, u, from, len)

\* C32, amended: a delete never removes text that an earlier command of the
\* same tick inserted: its position and length count the bytes the tick
\* began with only, and the commit leaves those bytes without the deleted
\* ones, and the inserted text whole in front of the byte it was put at
C32_DeleteSkipsPendingInsert ==
  \A pos \in 0..Len(base), text \in LawInserts,
     from \in 0..Len(base), len \in 1..2 :
     (/\ phase = "committed"
      /\ Len(calls.seq) = 2
      /\ IsCall(calls.seq[1], "insert", <<pos, text>>)
      /\ IsCall(calls.seq[2], "delete", <<from, len>>))
       => markdown_flatten(doc)
            = InsertedAndCut(base, 0, pos, text, from, len)

\* on the text a, x is inserted at 0 and one byte deleted from 0 in one
\* tick: a goes and x stays
C32_Witness ==
  /\ phase = "committed"
  /\ base = <<"a">>
  /\ Len(calls.seq) = 2
  /\ IsCall(calls.seq[1], "insert", <<0, <<"x">> >>)
  /\ IsCall(calls.seq[2], "delete", <<0, 1>>)
  /\ markdown_flatten(doc) = <<"x">>

\* C33: a command with a Reject result leaves the document as it was: an
\* operation that returns an error code leaves the lists as they were, or
\* with the working list made and nothing else, and the text a commit would
\* leave is the same before and after it
C33_RejectedHasNoEffect ==
  [][(calls' # calls /\ calls'.seq[Len(calls'.seq)].ret # SUCCESS)
       => /\ doc' \in {doc, EnsureWorking(doc)}
          /\ CommittedText(doc') = CommittedText(doc)]_vars

\* a batch of a successful insert and a rejected operation has been
\* committed: the text is the one the insert alone leaves
C33_Witness ==
  /\ phase = "committed"
  /\ Len(calls.seq) = 2
  /\ IsCall(calls.seq[1], "insert", <<1, <<"x">> >>)
  /\ calls.seq[2].ret = INVALID_CURSOR_POS
  /\ base = <<"a", "b">>
  /\ markdown_flatten(doc) = <<"a", "x", "b">>

\* C34: the lines a client has written are, in the order written, those the
\* handler has handled followed by those still in the pipe: none is dropped,
\* none handled twice or out of order
C34_EveryLineHandledOnce ==
  \A p \in AllProcs : c2s[p].written = c2s[p].handled \o c2s[p].pending

\* C35: once the server has ended, every command that was enqueued has been
\* drained and applied and is reported in exactly one EDIT line of a
\* broadcast, in the order of arrival: none is left in the queue or in a
\* batch, none is reported twice
C35_EveryEditDrainedOnce ==
  ~server_running
    => Ids(LogEdits(broadcast_log)) = [k \in 1..enqueued |-> k]

\* where the snapshot is in a stream, 0 when it holds none
SnapshotAt(items) ==
  LET at == {k \in 1..Len(items) : items[k].kind = "snapshot"}
  IN IF at = {} THEN 0 ELSE CHOOSE k \in at : TRUE

\* the ticks whose broadcast messages were written to p's stream after its
\* snapshot, in the order written
AfterSnapshot(p) ==
  Broadcasts(SubSeq(out[p], SnapshotAt(out[p]) + 1, Len(out[p])))

\* the ticks whose message p's stream need not hold: those logged when the
\* snapshot was taken, counted back from what the stream holds now
TicksBefore(p) ==
  Len(broadcast_log) - Len(AfterSnapshot(p))
    - (IF tick.pc = "write" /\ loop <= sess[p].slot THEN 1 ELSE 0)

\* after its snapshot p's stream holds the messages of the ticks m + 1,
\* m + 2, ... and of no other, each once and in order, lacks none but that
\* of a broadcast under way, and each was built on a version the snapshot
\* has or a later one
OnlyLaterTicks(p, m) ==
  /\ AfterSnapshot(p) = [k \in 1..Len(AfterSnapshot(p)) |-> m + k]
  /\ m + Len(AfterSnapshot(p)) >= TicksDone
  /\ \A k \in 1..Len(AfterSnapshot(p)) :
       broadcast_log[m + k].version > out[p][SnapshotAt(out[p])].n

C37_DocumentUnderLock ==
  [][/\ doc' # doc => doc_mutex = Scheduler
     /\ (\E p \in Procs : sess[p].pc \in {"snapshot", "save"}
                            /\ sess'[p].pc # sess[p].pc)
          => doc_mutex = Nobody
     /\ (server_running /\ ~server_running') => doc_mutex = Nobody
    ]_vars

\* the mutex the broadcast thread is waiting for, "none" when it is not
\* waiting
SchedulerWaitsFor ==
  CASE tick.pc = "lock" -> "doc_mutex"
    [] tick.pc = "handler" -> "clients_mutex"
    [] OTHER -> "none"

\* C38: no thread waits for a mutex that is held by a thread which cannot go
\* on until the first one does; the broadcast thread, the only one that
\* holds a mutex while it asks for another, never waits for a mutex it holds
C38_NoDeadlock ==
  /\ ~(SchedulerWaitsFor = "clients_mutex" /\ clients_mutex = Scheduler)
  /\ ~(SchedulerWaitsFor = "doc_mutex" /\ doc_mutex = Scheduler)

\* the batch just committed is made of successful inserts only
InsertsOnly ==
  /\ phase = "committed"
  /\ calls.seq # <<>>
  /\ \A k \in 1..Len(calls.seq) :
       calls.seq[k].op = "insert" /\ calls.seq[k].ret = SUCCESS

\* the texts of the calls cs put into t at their positions, one after the
\* other
RECURSIVE PutAll(_, _)
PutAll(t, cs) ==
  IF cs = <<>> THEN t
  ELSE PutAll(TextWith(t, Head(cs).args[1], Head(cs).args[2]), Tail(cs))

\* the orders in which the calls of the batch go from the highest position
\* to the lowest, so that each position still counts bytes of t only
FromTheEnd ==
  LET n == Len(calls.seq)
  IN {o \in [1..n -> 1..n] :
        /\ \A i \in 1..n, j \in 1..n : i # j => o[i] # o[j]
        /\ \A i \in 1..n, j \in 1..n :
             i < j => calls.seq[o[i]].args[1] >= calls.seq[o[j]].args[1]}

\* C39: a batch of inserts at valid positions commits to the text it began
\* with, its bytes in their order, with each inserted text whole and right in
\* front of the byte that was at its position (at the end for the position
\* past the last byte); texts inserted at one position follow one another
\* there
C39_InsertsAtTheirPositions ==
  InsertsOnly =>
    \E o \in FromTheEnd :
      markdown_flatten(doc)
        = PutAll(base, [k \in 1..Len(calls.seq) |-> calls.seq[o[k]]])

\* the bytes of a list that positions count: those of the segments that are
\* not PENDING_INS, in list order
CountedText(w) ==
  ConcatContents(SelectSeq(w, LAMBDA s : s.state # PENDING_INS))

\* C40: while a batch is applied, the segments of the working list that are
\* not PENDING_INS, put together in list order, are the committed text byte
\* for byte
C40_WorkingKeepsCommittedText ==
  (phase = "open" /\ doc.working_head # <<>>)
    => CountedText(doc.working_head) = markdown_flatten(doc)

====
